---- MODULE Spec2Model ----
(***************************************************************************)
(* Model of the cloud-finops analysis core:                                *)
(*   ResourceAnalyzer.analyze        (analyzers/resource_analyzer.py)      *)
(*   Optimizer.get_recommendations   (analyzers/optimizer.py)              *)
(*   CostAnalyzer.analyze            (analyzers/cost_analyzer.py)          *)
(* and of what is around it:                                               *)
(*   CloudFinOpsOptimizer.analyze_provider, apply_optimizations            *)
(*                                   (optimizer.py)                        *)
(*   AWSProvider.get_cost_data       (providers/aws_provider.py)           *)
(*   Downscaler.apply_recommendation (actions/downscaler.py)               *)
(*   ResourceScheduler               (actions/scheduler.py)                *)
(*                                                                         *)
(* Conventions.                                                            *)
(*  - A Python dict is a function whose DOMAIN is its set of keys.  None   *)
(*    is the value NoneDict; an empty dict is EmptyDict.  Both are falsy.  *)
(*  - A Python str that the code lower-cases or searches is a sequence of  *)
(*    one-character strings, so lower() and `in` are computed.  Keys and   *)
(*    resource types, which are only compared, are TLA+ strings.           *)
(*  - Money is counted in cents (cost 5000 is $50.00), so that the 70%,    *)
(*    40%, 30% and 50% factors are exact; cpu_percent is a whole number.   *)
(*  - A quotient of two floats is the pair [num, den], so that comparisons *)
(*    with it are exact and a zero divisor is seen.                        *)
(*  - An exception that leaves a call is the control state "raised".       *)
(***************************************************************************)
EXTENDS Integers, Sequences, FiniteSets, TLC

VARIABLES resources, config, analyzer, optimizer, pc, analysis, recommendations,
          cost_data, cost_analysis, previous,
          request, cloud, apply_results, scheduler, call, now, account

\* The variables of the actuation and of the scheduler.
actuation == <<request, cloud, apply_results>>

scheduling == <<scheduler, call, now>>

vars == <<resources, config, analyzer, optimizer, pc, analysis, recommendations,
          cost_data, cost_analysis, previous,
          request, cloud, apply_results, scheduler, call, now, account>>

(***************************************************************************)
(* Bounds of the model.                                                    *)
(***************************************************************************)
\* The longest snapshot of the recommendation runs.
MaxResources == 2

\* The longest snapshot of the classification runs, whose rules look at one
\* resource at a time.
MaxClassified == 1

\* The longest snapshot of the downsize runs.
MaxDownsized == 3

\* The longest snapshot of the storage runs.
MaxStored == 2

\* The longest snapshot of the tag runs.
MaxTagged == 1

\* The longest snapshot of the runs on partial resources.
MaxPartial == 1

\* The most services a cost report names: one more than the drivers kept.
MaxServices == 11

\* The most services of a cost report with three different costs.
MaxVaried == 7

\* The most resources of a snapshot of the averaging runs.
MaxAveraged == 3

\* The most resources of a snapshot of the runs on the unused list.
MaxUnused == 3

\* The most resources of a snapshot, and services of a cost report, of the
\* repeated runs.
MaxRepeated == 2

\* The most passes over one input.
MaxPasses == 2

\* The most recommendations given to apply_optimizations.
MaxApplied == 2

\* The most schedules a scheduler holds, and the last clock reading.
MaxSchedules == 3

MaxClock == 3

\* The most resources the fetch of one family collects.
MaxFetched == 1

(***************************************************************************)
(* Python values.                                                          *)
(***************************************************************************)
NoneDict == [none |-> TRUE]

EmptyDict == [k \in {} |-> 0]

IsNone(d) == "none" \in DOMAIN d

\* bool(d) for an Optional[Dict]: None and {} are falsy.
Truthy(d) == ~IsNone(d) /\ DOMAIN d # {}

\* d.get(k, default)
Get(d, k, default) == IF k \in DOMAIN d THEN d[k] ELSE default

\* None where a str is expected: a sequence that no str, made of single
\* characters, is equal to.
NoneStr == <<"None">>

\* None where a number is expected; no reading and no size is negative.
NoneNum == -1

\* bool(s) for an Optional[str]: None and the empty string are falsy.
TruthyStr(s) == s # NoneStr /\ Len(s) > 0

UpperAlpha ==
  <<"A","B","C","D","E","F","G","H","I","J","K","L","M",
    "N","O","P","Q","R","S","T","U","V","W","X","Y","Z">>

LowerAlpha ==
  <<"a","b","c","d","e","f","g","h","i","j","k","l","m",
    "n","o","p","q","r","s","t","u","v","w","x","y","z">>

LowerChar(c) ==
  IF \E i \in DOMAIN UpperAlpha : UpperAlpha[i] = c
  THEN LowerAlpha[CHOOSE i \in DOMAIN UpperAlpha : UpperAlpha[i] = c]
  ELSE c

\* s.lower()
Lower(s) == [i \in 1..Len(s) |-> LowerChar(s[i])]

\* sub in s   (substring test)
Contains(sub, s) ==
  \E i \in 1..(Len(s) - Len(sub) + 1) : SubSeq(s, i, i + Len(sub) - 1) = sub

\* x in [a, b, ...]  for a list of strings
InList(x, list) == \E i \in 1..Len(list) : list[i] = x

(***************************************************************************)
(* String literals of the source.                                          *)
(***************************************************************************)
EmptyStr == <<>>

S_stopped == <<"s","t","o","p","p","e","d">>

S_terminated == <<"t","e","r","m","i","n","a","t","e","d">>

S_deallocated == <<"d","e","a","l","l","o","c","a","t","e","d">>

S_xlarge == <<"x","l","a","r","g","e">>

S_2xlarge == <<"2">> \o S_xlarge

S_4xlarge == <<"4">> \o S_xlarge

S_8xlarge == <<"8">> \o S_xlarge

S_dev == <<"d","e","v">>

S_development == <<"d","e","v","e","l","o","p","m","e","n","t">>

S_test == <<"t","e","s","t">>

S_staging == <<"s","t","a","g","i","n","g">>

S_qa == <<"q","a">>

S_unknown == <<"u","n","k","n","o","w","n">>

StateList == <<S_stopped, S_terminated>>

StatusList == <<S_stopped, S_deallocated>>

SizeList == <<S_xlarge, S_2xlarge, S_4xlarge, S_8xlarge>>

NonProdList == <<S_dev, S_development, S_test, S_staging, S_qa>>

StorageTypes == <<"S3", "StorageAccount", "CloudStorage">>

LowRiskTypes == <<"EC2", "VirtualMachine", "ComputeEngine">>

(***************************************************************************)
(* Program constants.                                                      *)
(***************************************************************************)
DefaultCpuThreshold == 10

DefaultIdleDays == 7

DefaultSavingsThreshold == 5000

OverprovisionedCpu == 30

HighPrioritySavings == 50000

LargeBucketGb == 100

\* top_n of _get_top_cost_drivers
TopN == 10

\* The total, 10000 dollars, above which a report is unusually high.
HighTotalCost == 1000000

\* A service is unusually high above this many times the average.
HighServiceFactor == 3

(***************************************************************************)
(* ResourceAnalyzer                                                        *)
(***************************************************************************)
\* The lifecycle test of _find_unused_resources (metadata branch).
LifecycleStopped(r) ==
  /\ Truthy(r.metadata)
  /\ LET state == Lower(Get(r.metadata, "state", EmptyStr))
         status == Lower(Get(r.metadata, "status", EmptyStr))
     IN InList(state, StateList) \/ InList(status, StatusList)

\* The zero-utilization test of _find_unused_resources.
ZeroUtilization(r) ==
  /\ Truthy(r.utilization)
  /\ LET cpu == Get(r.utilization, "cpu_percent", 0)
         invocations == Get(r.utilization, "invocations", 0)
     IN cpu = 0 /\ invocations = 0

\* Mutant: the `continue` leaves the loop body for every resource that has
\* metadata, stopped or not.
UnusedStepContinueOnMetadata(unused, resource) ==
  IF Truthy(resource.metadata)
  THEN IF LifecycleStopped(resource) THEN Append(unused, resource) ELSE unused
  ELSE IF ZeroUtilization(resource) THEN Append(unused, resource)
  ELSE unused

\* Mutant: the `continue` is lost, so the zero-utilization branch runs for a
\* resource the lifecycle branch has appended.
UnusedStepWithoutContinue(unused, resource) ==
  LET appended == IF LifecycleStopped(resource) THEN Append(unused, resource)
                  ELSE unused
  IN IF ZeroUtilization(resource) THEN Append(appended, resource) ELSE appended

\* One iteration of the loop of _find_unused_resources: the lifecycle branch
\* appends and continues, otherwise the zero-utilization branch may append.
UnusedStep(unused, resource) ==
  IF LifecycleStopped(resource) THEN Append(unused, resource)
  ELSE IF ZeroUtilization(resource) THEN Append(unused, resource)
  ELSE unused

RECURSIVE find_unused_resources(_)

find_unused_resources(rs) ==
  IF Len(rs) = 0 THEN <<>>
  ELSE UnusedStep(find_unused_resources(SubSeq(rs, 1, Len(rs) - 1)), rs[Len(rs)])

\* Mutant: the lower bound is not strict.
IsUnderutilizedFromZero(r, cpu_threshold) ==
  /\ Truthy(r.utilization)
  /\ LET cpu == Get(r.utilization, "cpu_percent", 0)
     IN 0 <= cpu /\ cpu < cpu_threshold

IsUnderutilized(r, cpu_threshold) ==
  /\ Truthy(r.utilization)
  /\ LET cpu == Get(r.utilization, "cpu_percent", 0)
     IN 0 < cpu /\ cpu < cpu_threshold

find_underutilized_resources(rs, cpu_threshold) ==
  SelectSeq(rs, LAMBDA r : IsUnderutilized(r, cpu_threshold))

\* Mutant: vm_size is looked up before instance_type.
ResolveInstanceTypeVmSizeFirst(metadata) ==
  LET it == Get(metadata, "instance_type", EmptyStr)
      vs == Get(metadata, "vm_size", EmptyStr)
      mt == Get(metadata, "machine_type", EmptyStr)
  IN IF TruthyStr(vs) THEN vs ELSE IF TruthyStr(it) THEN it ELSE mt

\* metadata.get('instance_type') or metadata.get('vm_size') or
\* metadata.get('machine_type'); EmptyStr stands for the falsy result.
ResolveInstanceType(metadata) ==
  LET it == Get(metadata, "instance_type", EmptyStr)
      vs == Get(metadata, "vm_size", EmptyStr)
      mt == Get(metadata, "machine_type", EmptyStr)
  IN IF TruthyStr(it) THEN it ELSE IF TruthyStr(vs) THEN vs ELSE mt

IsLargeInstance(instance_type) ==
  \E k \in 1..Len(SizeList) : Contains(SizeList[k], Lower(instance_type))

IsOverprovisioned(r) ==
  /\ Truthy(r.utilization)
  /\ Truthy(r.metadata)
  /\ LET cpu == Get(r.utilization, "cpu_percent", 0)
         instance_type == ResolveInstanceType(r.metadata)
     IN /\ cpu < OverprovisionedCpu
        /\ TruthyStr(instance_type)
        /\ IsLargeInstance(instance_type)

find_overprovisioned_resources(rs) == SelectSeq(rs, IsOverprovisioned)

\* Mutant: a missing mapping is read as an empty one, `(utilization or {})`.
IsIdleWithoutMapping(r) ==
  LET utilization == IF Truthy(r.utilization) THEN r.utilization ELSE EmptyDict
      cpu == Get(utilization, "cpu_percent", 0)
      invocations == Get(utilization, "invocations", 0)
  IN cpu = 0 /\ invocations = 0

\* The test of _find_idle_resources.
IsIdle(r) ==
  /\ Truthy(r.utilization)
  /\ LET cpu == Get(r.utilization, "cpu_percent", 0)
         invocations == Get(r.utilization, "invocations", 0)
     IN cpu = 0 /\ invocations = 0

\* Mutant: the idle list is kept between calls and appended to.
find_idle_resources_accumulating(rs) ==
  analysis.idle_resources \o SelectSeq(rs, IsIdle)

\* _find_idle_resources: a new list at every call.
find_idle_resources(rs) == SelectSeq(rs, IsIdle)

\* _find_unused_resources raises on a state or status that is None:
\* None has no lower().
UnusedRaises(r) ==
  /\ Truthy(r.metadata)
  /\ \/ Get(r.metadata, "state", EmptyStr) = NoneStr
     \/ Get(r.metadata, "status", EmptyStr) = NoneStr

\* _find_underutilized_resources raises on a cpu_percent that is None:
\* `0 < None` is a TypeError.
UnderutilizedRaises(r) ==
  /\ Truthy(r.utilization)
  /\ Get(r.utilization, "cpu_percent", 0) = NoneNum

\* _find_overprovisioned_resources raises on `None < 30`.
OverprovisionedRaises(r) ==
  /\ Truthy(r.utilization)
  /\ Truthy(r.metadata)
  /\ Get(r.utilization, "cpu_percent", 0) = NoneNum

\* An exception leaves ResourceAnalyzer.analyze: no step of it catches one.
analyze_raises(rs) ==
  \E i \in 1..Len(rs) :
    UnusedRaises(rs[i]) \/ UnderutilizedRaises(rs[i]) \/ OverprovisionedRaises(rs[i])

\* _count_by_type: the dict of the number of resources of each type.
count_by_type(rs) ==
  [t \in {rs[i].resource_type : i \in 1..Len(rs)} |->
     Cardinality({i \in 1..Len(rs) : rs[i].resource_type = t})]

RECURSIVE SumCpu(_)

\* sum(values) over the cpu_percent readings collected from the resources.
SumCpu(rs) ==
  IF Len(rs) = 0 THEN 0
  ELSE SumCpu(SubSeq(rs, 1, Len(rs) - 1))
       + Get(rs[Len(rs)].utilization, "cpu_percent", 0)

\* Mutant: the reading of every resource is collected, `(utilization or {})`.
calculate_average_utilization_of_all(rs) ==
  LET reading(r) == IF Truthy(r.utilization)
                    THEN Get(r.utilization, "cpu_percent", 0) ELSE 0
      values(t) == SelectSeq(rs, LAMBDA r : r.resource_type = t)
      total(t) == SumCpu([i \in 1..Len(values(t)) |->
                            [utilization |-> "cpu_percent" :> reading(values(t)[i])]])
  IN [t \in {rs[i].resource_type : i \in 1..Len(rs)} |->
        [num |-> total(t), den |-> Len(values(t))]]

\* _calculate_average_utilization: the readings of the resources whose
\* utilization is truthy are collected by type; the average of a type is
\* sum(values) / len(values), the pair [num, den].
calculate_average_utilization(rs) ==
  LET reporting == SelectSeq(rs, LAMBDA r : Truthy(r.utilization))
      values(t) == SelectSeq(reporting, LAMBDA r : r.resource_type = t)
  IN [t \in {reporting[i].resource_type : i \in 1..Len(reporting)} |->
        [num |-> SumCpu(values(t)), den |-> Len(values(t))]]

analyze(rs, cpu_threshold) ==
  [ total_resources |-> Len(rs),
    unused_resources |-> find_unused_resources(rs),
    underutilized_resources |-> find_underutilized_resources(rs, cpu_threshold),
    overprovisioned_resources |-> find_overprovisioned_resources(rs),
    idle_resources |-> find_idle_resources(rs),
    resources_by_type |-> count_by_type(rs),
    average_utilization |-> calculate_average_utilization(rs) ]

(***************************************************************************)
(* Optimizer                                                               *)
(***************************************************************************)
\* Mutant: the constructor drops its argument and no threshold is kept.
OptimizerInitNoThreshold(savings_threshold) == [savings_threshold |-> 0]

\* Optimizer.__init__: the threshold the instance keeps.
OptimizerInit(savings_threshold) == [savings_threshold |-> savings_threshold]

\* ResourceAnalyzer.__init__
AnalyzerInit(cpu_threshold, idle_days) ==
  [cpu_threshold |-> cpu_threshold, idle_days |-> idle_days]

\* Mutant: the tag values are compared as they are, without lower().
is_non_production_case_sensitive(r) ==
  LET tags == IF Truthy(r.tags) THEN r.tags ELSE EmptyDict
      env == Get(tags, "environment", EmptyStr)
      env_tag == Get(tags, "Environment", EmptyStr)
      env_type == Get(tags, "env", EmptyStr)
  IN \/ InList(env, NonProdList)
     \/ InList(env_tag, NonProdList)
     \/ InList(env_type, NonProdList)

\* Optimizer._is_non_production
is_non_production(r) ==
  LET tags == IF Truthy(r.tags) THEN r.tags ELSE EmptyDict
      env == Lower(Get(tags, "environment", EmptyStr))
      env_tag == Lower(Get(tags, "Environment", EmptyStr))
      env_type == Lower(Get(tags, "env", EmptyStr))
  IN \/ InList(env, NonProdList)
     \/ InList(env_tag, NonProdList)
     \/ InList(env_type, NonProdList)

\* _is_non_production raises on a tag value that is None: the three
\* lower() calls all run before the result is computed.
NonProductionRaises(r) ==
  LET tags == IF Truthy(r.tags) THEN r.tags ELSE EmptyDict
  IN \/ Get(tags, "environment", EmptyStr) = NoneStr
     \/ Get(tags, "Environment", EmptyStr) = NoneStr
     \/ Get(tags, "env", EmptyStr) = NoneStr

RECURSIVE SumCost(_)

\* sum(r.cost for r in rs)
SumCost(rs) ==
  IF Len(rs) = 0 THEN 0 ELSE SumCost(SubSeq(rs, 1, Len(rs) - 1)) + rs[Len(rs)].cost

RECURSIVE SumCost70(_)

\* sum(r.cost * 0.7 for r in rs)
SumCost70(rs) ==
  IF Len(rs) = 0 THEN 0
  ELSE SumCost70(SubSeq(rs, 1, Len(rs) - 1)) + (rs[Len(rs)].cost * 7) \div 10

\* [r.resource_id for r in rs]
Ids(rs) == [i \in 1..Len(rs) |-> rs[i].resource_id]

RECURSIVE KeysInOrder(_)

\* The keys of a dict filled by one pass over `keys`, in insertion order.
KeysInOrder(keys) ==
  IF Len(keys) = 0 THEN <<>>
  ELSE LET before == KeysInOrder(SubSeq(keys, 1, Len(keys) - 1))
           k == keys[Len(keys)]
       IN IF \E i \in 1..Len(before) : before[i] = k THEN before
          ELSE Append(before, k)

RECURSIVE Concat(_)

\* Flattens a sequence of lists (repeated list.extend / append).
Concat(lists) ==
  IF Len(lists) = 0 THEN <<>>
  ELSE Concat(SubSeq(lists, 1, Len(lists) - 1)) \o lists[Len(lists)]

\* Mutant: savings of exactly the cut-off count as high.
TerminatePriorityInclusive(total_savings) ==
  IF total_savings >= HighPrioritySavings THEN "high" ELSE "medium"

\* The priority of a terminate-unused recommendation.
TerminatePriority(total_savings) ==
  IF total_savings > HighPrioritySavings THEN "high" ELSE "medium"

\* Mutant: a group has to exceed the threshold, not only reach it.
recommend_terminate_unused_strict(self, unused_resources) ==
  LET types == KeysInOrder([i \in 1..Len(unused_resources) |->
                              unused_resources[i].resource_type])
      Group(t) == SelectSeq(unused_resources, LAMBDA r : r.resource_type = t)
      Rec(t) ==
        LET rs == Group(t)
            total_savings == SumCost(rs)
        IN IF total_savings > self.savings_threshold
           THEN << [ recommendation_type |-> "terminate_unused",
                     priority |-> TerminatePriority(total_savings),
                     estimated_savings |-> total_savings,
                     resources |-> Ids(rs),
                     details |-> [resource_type |-> t, count |-> Len(rs)],
                     risk_level |-> IF InList(t, LowRiskTypes)
                                    THEN "low" ELSE "medium" ] >>
           ELSE <<>>
  IN Concat([i \in 1..Len(types) |-> Rec(types[i])])

\* Optimizer._recommend_terminate_unused
recommend_terminate_unused(self, unused_resources) ==
  LET types == KeysInOrder([i \in 1..Len(unused_resources) |->
                              unused_resources[i].resource_type])
      Group(t) == SelectSeq(unused_resources, LAMBDA r : r.resource_type = t)
      Rec(t) ==
        LET rs == Group(t)
            total_savings == SumCost(rs)
        IN IF total_savings >= self.savings_threshold
           THEN << [ recommendation_type |-> "terminate_unused",
                     priority |-> TerminatePriority(total_savings),
                     estimated_savings |-> total_savings,
                     resources |-> Ids(rs),
                     details |-> [resource_type |-> t, count |-> Len(rs)],
                     risk_level |-> IF InList(t, LowRiskTypes)
                                    THEN "low" ELSE "medium" ] >>
           ELSE <<>>
  IN Concat([i \in 1..Len(types) |-> Rec(types[i])])

\* Mutant: the idle resources are not filtered by environment.
recommend_stop_idle_unfiltered(self, idle_resources) ==
  LET non_prod_resources == idle_resources
      total_savings == SumCost70(non_prod_resources)
  IN IF Len(non_prod_resources) > 0 /\ total_savings >= self.savings_threshold
     THEN << [ recommendation_type |-> "stop_idle",
               priority |-> "medium",
               estimated_savings |-> total_savings,
               resources |-> Ids(non_prod_resources),
               details |-> [count |-> Len(non_prod_resources)],
               risk_level |-> "low" ] >>
     ELSE <<>>

\* Optimizer._recommend_stop_idle
recommend_stop_idle(self, idle_resources) ==
  LET non_prod_resources == SelectSeq(idle_resources, is_non_production)
      total_savings == SumCost70(non_prod_resources)
  IN IF Len(non_prod_resources) > 0 /\ total_savings >= self.savings_threshold
     THEN << [ recommendation_type |-> "stop_idle",
               priority |-> "medium",
               estimated_savings |-> total_savings,
               resources |-> Ids(non_prod_resources),
               details |-> [count |-> Len(non_prod_resources)],
               risk_level |-> "low" ] >>
     ELSE <<>>

\* Mutant: the key is the instance_type alone.
DownsizeKeyInstanceTypeOnly(r) ==
  LET instance_type == Get(r.metadata, "instance_type", EmptyStr)
  IN IF TruthyStr(instance_type) THEN instance_type ELSE S_unknown

\* The grouping key of _recommend_downsize.
DownsizeKey(r) ==
  LET instance_type == ResolveInstanceType(r.metadata)
  IN IF TruthyStr(instance_type) THEN instance_type ELSE S_unknown

\* Optimizer._recommend_downsize
recommend_downsize(self, overprovisioned_resources) ==
  LET keys == KeysInOrder([i \in 1..Len(overprovisioned_resources) |->
                             DownsizeKey(overprovisioned_resources[i])])
      Group(k) == SelectSeq(overprovisioned_resources, LAMBDA r : DownsizeKey(r) = k)
      Rec(k) ==
        LET rs == Group(k)
            total_current_cost == SumCost(rs)
            estimated_savings == (total_current_cost * 4) \div 10
        IN IF estimated_savings >= self.savings_threshold
           THEN << [ recommendation_type |-> "downsize",
                     priority |-> "medium",
                     estimated_savings |-> estimated_savings,
                     resources |-> Ids(rs),
                     details |-> [current_instance_type |-> k, count |-> Len(rs)],
                     risk_level |-> "medium" ] >>
           ELSE <<>>
  IN Concat([i \in 1..Len(keys) |-> Rec(keys[i])])

\* Mutant: only the idle resources are considered.
recommend_schedule_stop_idle_only(self, rs) ==
  LET non_prod_resources ==
        SelectSeq(rs, LAMBDA r : IsIdle(r) /\ is_non_production(r))
      total_cost == SumCost(non_prod_resources)
      estimated_savings == (total_cost * 3) \div 10
  IN IF Len(non_prod_resources) > 0 /\ estimated_savings >= self.savings_threshold
     THEN << [ recommendation_type |-> "schedule_stop",
               priority |-> "low",
               estimated_savings |-> estimated_savings,
               resources |-> Ids(non_prod_resources),
               details |-> [count |-> Len(non_prod_resources)],
               risk_level |-> "low" ] >>
     ELSE <<>>

\* Mutant: the resources that are idle, which the stop-idle generator
\* names, are left out.
recommend_schedule_stop_deduplicated(self, rs) ==
  LET non_prod_resources ==
        SelectSeq(rs, LAMBDA r : is_non_production(r) /\ ~IsIdle(r))
      total_cost == SumCost(non_prod_resources)
      estimated_savings == (total_cost * 3) \div 10
  IN IF Len(non_prod_resources) > 0 /\ estimated_savings >= self.savings_threshold
     THEN << [ recommendation_type |-> "schedule_stop",
               priority |-> "low",
               estimated_savings |-> estimated_savings,
               resources |-> Ids(non_prod_resources),
               details |-> [count |-> Len(non_prod_resources)],
               risk_level |-> "low" ] >>
     ELSE <<>>

\* Optimizer._recommend_schedule_stop
recommend_schedule_stop(self, rs) ==
  LET non_prod_resources == SelectSeq(rs, is_non_production)
      total_cost == SumCost(non_prod_resources)
      estimated_savings == (total_cost * 3) \div 10
  IN IF Len(non_prod_resources) > 0 /\ estimated_savings >= self.savings_threshold
     THEN << [ recommendation_type |-> "schedule_stop",
               priority |-> "low",
               estimated_savings |-> estimated_savings,
               resources |-> Ids(non_prod_resources),
               details |-> [count |-> Len(non_prod_resources)],
               risk_level |-> "low" ] >>
     ELSE <<>>

\* Mutant: a bucket of exactly the limit counts as large.
IsLargeStorageInclusive(r) ==
  /\ InList(r.resource_type, StorageTypes)
  /\ Truthy(r.metadata)
  /\ Get(r.metadata, "size_gb", 0) >= LargeBucketGb

\* The size test of _recommend_move_storage.
IsLargeStorage(r) ==
  /\ InList(r.resource_type, StorageTypes)
  /\ Truthy(r.metadata)
  /\ Get(r.metadata, "size_gb", 0) > LargeBucketGb

\* Mutant: the `if old_storage:` guard is lost.
recommend_move_storage_unguarded(self, rs) ==
  LET old_storage == SelectSeq(rs, IsLargeStorage)
      total_cost == SumCost(old_storage)
      estimated_savings == (total_cost * 5) \div 10
  IN IF estimated_savings >= self.savings_threshold
     THEN << [ recommendation_type |-> "move_storage",
               priority |-> "low",
               estimated_savings |-> estimated_savings,
               resources |-> Ids(old_storage),
               details |-> [count |-> Len(old_storage)],
               risk_level |-> "low" ] >>
     ELSE <<>>

\* Optimizer._recommend_move_storage
recommend_move_storage(self, rs) ==
  LET old_storage == SelectSeq(rs, IsLargeStorage)
      total_cost == SumCost(old_storage)
      estimated_savings == (total_cost * 5) \div 10
  IN IF Len(old_storage) > 0 /\ estimated_savings >= self.savings_threshold
     THEN << [ recommendation_type |-> "move_storage",
               priority |-> "low",
               estimated_savings |-> estimated_savings,
               resources |-> Ids(old_storage),
               details |-> [count |-> Len(old_storage)],
               risk_level |-> "low" ] >>
     ELSE <<>>

\* _recommend_move_storage raises on a size_gb that is None:
\* `None > 100` is a TypeError.
MoveStorageRaises(r) ==
  /\ InList(r.resource_type, StorageTypes)
  /\ Truthy(r.metadata)
  /\ Get(r.metadata, "size_gb", 0) = NoneNum

\* Mutant: reverse=True is lost and the sort is ascending.
InsertBySavingsAscending(sorted, x) ==
  LET n == Cardinality({i \in 1..Len(sorted) :
                          sorted[i].estimated_savings <= x.estimated_savings})
  IN SubSeq(sorted, 1, n) \o <<x>> \o SubSeq(sorted, n + 1, Len(sorted))

\* Mutant: an unstable sort, x goes in front of the elements of equal savings.
InsertBySavingsBeforeEqual(sorted, x) ==
  LET n == Cardinality({i \in 1..Len(sorted) :
                          sorted[i].estimated_savings > x.estimated_savings})
  IN SubSeq(sorted, 1, n) \o <<x>> \o SubSeq(sorted, n + 1, Len(sorted))

\* list.sort(key=lambda x: x.estimated_savings, reverse=True): a stable sort,
\* so x goes behind every element whose savings is not smaller.
InsertBySavings(sorted, x) ==
  LET n == Cardinality({i \in 1..Len(sorted) :
                          sorted[i].estimated_savings >= x.estimated_savings})
  IN SubSeq(sorted, 1, n) \o <<x>> \o SubSeq(sorted, n + 1, Len(sorted))

RECURSIVE SortBySavingsDesc(_)

SortBySavingsDesc(recs) ==
  IF Len(recs) = 0 THEN <<>>
  ELSE InsertBySavings(SortBySavingsDesc(SubSeq(recs, 1, Len(recs) - 1)),
                       recs[Len(recs)])

\* The filter of get_recommendations.
FilterBySavings(self, recs) ==
  SelectSeq(recs, LAMBDA rec : rec.estimated_savings >= self.savings_threshold)

\* Optimizer.get_recommendations
get_recommendations(self, resource_analysis, rs) ==
  LET generated ==
        recommend_terminate_unused(self, resource_analysis.unused_resources)
        \o recommend_stop_idle(self, resource_analysis.idle_resources)
        \o recommend_downsize(self, resource_analysis.overprovisioned_resources)
        \o recommend_schedule_stop(self, rs)
        \o recommend_move_storage(self, rs)
  IN SortBySavingsDesc(FilterBySavings(self, generated))

\* An exception leaves Optimizer.get_recommendations: the tag rule runs on
\* the idle resources and on the full list, the size test on the full list.
get_recommendations_raises(resource_analysis, rs) ==
  \/ \E i \in 1..Len(resource_analysis.idle_resources) :
        NonProductionRaises(resource_analysis.idle_resources[i])
  \/ \E i \in 1..Len(rs) : NonProductionRaises(rs[i])
  \/ \E i \in 1..Len(rs) : MoveStorageRaises(rs[i])

(***************************************************************************)
(* CostAnalyzer.  A CostData is [total_cost, costs_by_service]; the dict    *)
(* costs_by_service is the sequence of its items [service, cost] in         *)
(* insertion order, which is the order items() and sorted() see.            *)
(***************************************************************************)
\* Mutant: the division by the total is lost.
PercentageUndivided(cost, total_cost) == [num |-> cost * 100, den |-> 1]

\* (cost / total_cost) * 100
Percentage(cost, total_cost) == [num |-> cost * 100, den |-> total_cost]

\* sorted(..., key=lambda x: x[1], reverse=True): stable, so x goes behind
\* every item whose cost is not smaller.
InsertByCost(sorted, x) ==
  LET n == Cardinality({i \in 1..Len(sorted) : sorted[i].cost >= x.cost})
  IN SubSeq(sorted, 1, n) \o <<x>> \o SubSeq(sorted, n + 1, Len(sorted))

RECURSIVE SortByCostDesc(_)

SortByCostDesc(items) ==
  IF Len(items) = 0 THEN <<>>
  ELSE InsertByCost(SortByCostDesc(SubSeq(items, 1, Len(items) - 1)),
                    items[Len(items)])

\* list[:n]
Take(list, n) == SubSeq(list, 1, IF Len(list) < n THEN Len(list) ELSE n)

\* (service, cost, percentage) for each of the items
Drivers(items, total_cost) ==
  [i \in 1..Len(items) |->
     [service |-> items[i].service, cost |-> items[i].cost,
      percentage |-> Percentage(items[i].cost, total_cost)]]

\* Mutant: the slice is taken before the sort.
get_top_cost_drivers_slice_first(costs_by_service, total_cost) ==
  IF total_cost = 0 THEN <<>>
  ELSE Drivers(SortByCostDesc(Take(costs_by_service, TopN)), total_cost)

\* Mutant: the guard on a zero total is lost.
get_top_cost_drivers_unguarded(costs_by_service, total_cost) ==
  Drivers(Take(SortByCostDesc(costs_by_service), TopN), total_cost)

\* CostAnalyzer._get_top_cost_drivers
get_top_cost_drivers(costs_by_service, total_cost) ==
  IF total_cost = 0 THEN <<>>
  ELSE Drivers(Take(SortByCostDesc(costs_by_service), TopN), total_cost)

\* total_cost / len(costs_by_service) if costs_by_service else 0
AvgServiceCost(cd) ==
  IF Len(cd.costs_by_service) > 0
  THEN [num |-> cd.total_cost, den |-> Len(cd.costs_by_service)]
  ELSE [num |-> 0, den |-> 1]

\* Mutant: a total of exactly the limit counts as high.
IsHighTotalInclusive(total_cost) == total_cost >= HighTotalCost

\* cost_data.total_cost > 10000
IsHighTotal(total_cost) == total_cost > HighTotalCost

\* Mutant: a cost of exactly three times the average counts as high.
IsHighServiceInclusive(cost, avg) == cost * avg.den >= avg.num * HighServiceFactor

\* cost > avg_service_cost * 3, for a positive divisor
IsHighService(cost, avg) == cost * avg.den > avg.num * HighServiceFactor

\* CostAnalyzer._detect_anomalies
detect_anomalies(cd) ==
  LET avg_service_cost == AvgServiceCost(cd)
      high == SelectSeq(cd.costs_by_service,
                        LAMBDA item : IsHighService(item.cost, avg_service_cost))
  IN (IF IsHighTotal(cd.total_cost)
      THEN << [type |-> "high_total_cost", severity |-> "warning",
               value |-> cd.total_cost] >>
      ELSE <<>>)
     \o [i \in 1..Len(high) |->
          [type |-> "high_service_cost", severity |-> "info",
           service |-> high[i].service, value |-> high[i].cost]]

\* CostAnalyzer.analyze
cost_analyze(cd) ==
  [ total_cost |-> cd.total_cost,
    costs_by_service |-> cd.costs_by_service,
    top_cost_drivers |-> get_top_cost_drivers(cd.costs_by_service, cd.total_cost),
    cost_trend |-> "stable",
    anomalies |-> detect_anomalies(cd) ]

\* A ZeroDivisionError leaves CostAnalyzer.analyze: one of its quotients has
\* a zero divisor.
cost_analyze_raises(cd) ==
  LET top_drivers == get_top_cost_drivers(cd.costs_by_service, cd.total_cost)
  IN \/ \E i \in 1..Len(top_drivers) : top_drivers[i].percentage.den = 0
     \/ AvgServiceCost(cd).den = 0

(***************************************************************************)
(* Downscaler and CloudFinOpsOptimizer.apply_optimizations.  The provider  *)
(* is the name of its class; what the cloud answers to a stop or terminate *)
(* call is the mapping `responses`, and the calls made are collected.      *)
(***************************************************************************)
S_aws == <<"a", "w", "s">>

S_azure == <<"a", "z", "u", "r", "e">>

S_gcp == <<"g", "c", "p">>

S_instance_prefix == <<"i", "-">>

\* str.startswith
StartsWith(prefix, s) ==
  Len(s) >= Len(prefix) /\ SubSeq(s, 1, Len(prefix)) = prefix

\* get_provider: the class of the provider, or the ValueError of an unknown
\* name (the Azure subscription and the GCP project are configured).
get_provider(provider_name) ==
  LET name == Lower(provider_name)
  IN IF name = S_aws THEN "AWSProvider"
     ELSE IF name = S_azure THEN "AzureProvider"
     ELSE IF name = S_gcp THEN "GCPProvider"
     ELSE "ValueError"

DownscalerInit(provider, dry_run) == [provider |-> provider, dry_run |-> dry_run]

\* One iteration of the loops of _terminate_resources and _stop_resources:
\* the provider is called for an AWS instance id only.
ActOnResource(self, method, resource_id, responses) ==
  IF self.provider = "AWSProvider" /\ StartsWith(S_instance_prefix, resource_id)
  THEN [ calls |-> <<[method |-> method, resource_id |-> resource_id]>>,
         success |-> responses[resource_id] ]
  ELSE [calls |-> <<>>, success |-> FALSE]

RECURSIVE ActOnResources(_, _, _, _)

\* The loops of _terminate_resources and _stop_resources.
ActOnResources(self, method, ids, responses) ==
  IF Len(ids) = 0
  THEN [ resources_processed |-> 0, resources_succeeded |-> 0,
         resources_failed |-> 0, calls |-> <<>> ]
  ELSE LET done == ActOnResources(self, method, SubSeq(ids, 1, Len(ids) - 1), responses)
           step == ActOnResource(self, method, ids[Len(ids)], responses)
       IN [ resources_processed |-> done.resources_processed + 1,
            resources_succeeded |->
              done.resources_succeeded + (IF step.success THEN 1 ELSE 0),
            resources_failed |->
              done.resources_failed + (IF step.success THEN 0 ELSE 1),
            calls |-> done.calls \o step.calls ]

\* The results dict of a recommendation type that acts on the provider.
ActedResult(action, acted) ==
  [ result |-> [ action |-> action,
                 resources_processed |-> acted.resources_processed,
                 resources_succeeded |-> acted.resources_succeeded,
                 resources_failed |-> acted.resources_failed ],
    calls |-> acted.calls ]

\* The results dict that no branch has touched.
UntouchedResult ==
  [ action |-> "recommended", resources_processed |-> 0,
    resources_succeeded |-> 0, resources_failed |-> 0 ]

\* Downscaler.apply_recommendation after the dry-run test.
Dispatch(self, recommendation, responses) ==
  IF recommendation.recommendation_type = "terminate_unused"
  THEN ActedResult("terminate",
         ActOnResources(self, "terminate_instance", recommendation.resources, responses))
  ELSE IF recommendation.recommendation_type = "stop_idle"
  THEN ActedResult("stop",
         ActOnResources(self, "stop_instance", recommendation.resources, responses))
  ELSE IF recommendation.recommendation_type = "schedule_stop"
  THEN [ result |-> [ action |-> "schedule_stop",
                      resources_processed |-> Len(recommendation.resources),
                      resources_succeeded |-> Len(recommendation.resources),
                      resources_failed |-> 0 ],
         calls |-> <<>> ]
  ELSE [result |-> UntouchedResult, calls |-> <<>>]

\* Mutant: the dry-run test is lost.
apply_recommendation_always_acting(self, recommendation, responses) ==
  Dispatch(self, recommendation, responses)

\* Downscaler.apply_recommendation: the results dict and the calls made on
\* the provider.  The key dry_run is set in a dry run only.
apply_recommendation(self, recommendation, responses) ==
  IF self.dry_run
  THEN [ result |-> [ action |-> "recommended",
                      resources_processed |-> Len(recommendation.resources),
                      resources_succeeded |-> 0,
                      resources_failed |-> 0,
                      dry_run |-> TRUE ],
         calls |-> <<>> ]
  ELSE Dispatch(self, recommendation, responses)

\* apply_recommendation raises on an entry that is no recommendation: None
\* has no attribute title.
apply_recommendation_raises(recommendation) == IsNone(recommendation)

NoApplyResults ==
  [ recommendations_applied |-> 0, recommendations_succeeded |-> 0,
    recommendations_failed |-> 0, results |-> <<>> ]

\* The try branch of the loop of apply_optimizations.
Counted(state, applied) ==
  LET succeeded == Get(applied.result, "resources_succeeded", 0) > 0
  IN [ results |->
         [ recommendations_applied |-> state.results.recommendations_applied + 1,
           recommendations_succeeded |->
             state.results.recommendations_succeeded + (IF succeeded THEN 1 ELSE 0),
           recommendations_failed |->
             state.results.recommendations_failed + (IF succeeded THEN 0 ELSE 1),
           results |-> Append(state.results.results, applied.result) ],
       calls |-> state.calls \o applied.calls ]

\* Mutant: the except branch does not count the recommendation.
ApplyStepExceptUncounted(state, downscaler, recommendation, responses) ==
  IF apply_recommendation_raises(recommendation)
  THEN state
  ELSE Counted(state, apply_recommendation(downscaler, recommendation, responses))

\* One iteration of the loop of apply_optimizations.
ApplyStep(state, downscaler, recommendation, responses) ==
  IF apply_recommendation_raises(recommendation)
  THEN [state EXCEPT !.results.recommendations_failed = @ + 1]
  ELSE Counted(state, apply_recommendation(downscaler, recommendation, responses))

RECURSIVE ApplyAll(_, _, _)

ApplyAll(downscaler, recs, responses) ==
  IF Len(recs) = 0 THEN [results |-> NoApplyResults, calls |-> <<>>]
  ELSE ApplyStep(ApplyAll(downscaler, SubSeq(recs, 1, Len(recs) - 1), responses),
                 downscaler, recs[Len(recs)], responses)

\* CloudFinOpsOptimizer.apply_optimizations, once the provider is there.
apply_optimizations(provider, recs, dry_run, responses) ==
  ApplyAll(DownscalerInit(provider, dry_run), recs, responses)

(***************************************************************************)
(* ResourceScheduler.  The clock reading of datetime.utcnow() is the       *)
(* argument created_at.                                                    *)
(***************************************************************************)
ScheduleConfig(action, tag_filter, schedule, timezone, created_at) ==
  [ action |-> action, tag_filter |-> tag_filter, schedule |-> schedule,
    timezone |-> timezone, created_at |-> created_at ]

\* ResourceScheduler.schedule_stop
schedule_stop(self, tag_filter, schedule, created_at) ==
  [ self |-> [self EXCEPT !.schedules =
                Append(@, ScheduleConfig("stop", tag_filter, schedule, "UTC", created_at))],
    ret |-> TRUE ]

\* ResourceScheduler.schedule_start
schedule_start(self, tag_filter, schedule, created_at) ==
  [ self |-> [self EXCEPT !.schedules =
                Append(@, ScheduleConfig("start", tag_filter, schedule, "UTC", created_at))],
    ret |-> TRUE ]

\* list.pop(i) for 0 <= i < len(list): what is left of the list.
Pop(list, i) == SubSeq(list, 1, i) \o SubSeq(list, i + 2, Len(list))

\* Mutant: the lower limit of the index test is lost, and list.pop takes a
\* negative index from the end.
remove_schedule_from_end(self, schedule_id) ==
  IF schedule_id < Len(self.schedules) /\ Len(self.schedules) + schedule_id >= 0
  THEN [ self |-> [self EXCEPT !.schedules =
                     Pop(@, IF schedule_id < 0 THEN Len(@) + schedule_id ELSE schedule_id)],
         ret |-> TRUE ]
  ELSE [self |-> self, ret |-> FALSE]

\* ResourceScheduler.remove_schedule
remove_schedule(self, schedule_id) ==
  IF 0 <= schedule_id /\ schedule_id < Len(self.schedules)
  THEN [self |-> [self EXCEPT !.schedules = Pop(@, schedule_id)], ret |-> TRUE]
  ELSE [self |-> self, ret |-> FALSE]

(***************************************************************************)
(* Inputs.  A Resource is [resource_id, resource_type, cost, tags,         *)
(* utilization, metadata]; region takes no part in any decision.           *)
(***************************************************************************)
Str_Stopped == <<"S","t","o","p","p","e","d">>

Str_DEALLOCATED == <<"D","E","A","L","L","O","C","A","T","E","D">>

Str_TERMINATED == <<"T","E","R","M","I","N","A","T","E","D">>

Str_m5_4XLarge == <<"m","5",".","4","X","L","a","r","g","e">>

Str_t3_micro == <<"t","3",".","m","i","c","r","o">>

Str_D4_xlarge == <<"D","4","_","x","l","a","r","g","e">>

Str_B1s == <<"B","1","s">>

Str_n2_2xlarge == <<"n","2","-","2","x","l","a","r","g","e">>

Str_Dev == <<"D","e","v">>

Str_prod == <<"p","r","o","d">>

\* Every dict made of one choice per part (parts have disjoint keys).
Combine2(A, B) == {a @@ b : a \in A, b \in B}

CpuParts ==
  {EmptyDict, "cpu_percent" :> 0, "cpu_percent" :> 5, "cpu_percent" :> 30}

InvocationParts == {EmptyDict, "invocations" :> 0, "invocations" :> 3}

StateParts == {EmptyDict, "state" :> Str_Stopped, "state" :> S_deallocated}

StatusParts == {EmptyDict, "status" :> Str_DEALLOCATED, "status" :> Str_TERMINATED}

\* One dict per branch of `instance_type or vm_size or machine_type`.
DescriptorParts ==
  { EmptyDict,
    "instance_type" :> Str_m5_4XLarge @@ "vm_size" :> Str_B1s,
    "instance_type" :> Str_t3_micro @@ "vm_size" :> Str_D4_xlarge,
    "instance_type" :> EmptyStr @@ "vm_size" :> Str_D4_xlarge,
    "vm_size" :> Str_B1s @@ "machine_type" :> Str_n2_2xlarge,
    "machine_type" :> Str_n2_2xlarge }

ClassifyUtilizations == {NoneDict} \cup Combine2(CpuParts, InvocationParts)

ClassifyMetadata ==
  {NoneDict} \cup Combine2(Combine2(StateParts, StatusParts), DescriptorParts)

CpuThresholds == {5, DefaultCpuThreshold}

\* The resources of the classification runs: every utilization with every
\* metadata, on one type, cost and tag set.
ClassifyUniverse ==
  { [resource_id |-> 0, resource_type |-> "EC2", cost |-> 5000, tags |-> NoneDict,
     utilization |-> u, metadata |-> m] :
    u \in ClassifyUtilizations, m \in ClassifyMetadata }

Types == {"EC2", "S3"}

Costs == {2000, 5000, 50000, 60000}

TagChoices == {NoneDict, "environment" :> Str_Dev, "Environment" :> Str_prod}

\* What a resource reports: stopped without readings, idle without metadata,
\* or busy on a large instance.
Profiles ==
  { [utilization |-> NoneDict, metadata |-> "state" :> S_stopped],
    [utilization |-> "cpu_percent" :> 0, metadata |-> NoneDict],
    [utilization |-> "cpu_percent" :> 20,
     metadata |-> "instance_type" :> Str_m5_4XLarge @@ "size_gb" :> 101] }

SavingsThresholds == {0, DefaultSavingsThreshold}

\* The resources of the recommendation runs.
OptimizeUniverse ==
  { [resource_id |-> 0, resource_type |-> t, cost |-> c, tags |-> g,
     utilization |-> p.utilization, metadata |-> p.metadata] :
    t \in Types, c \in Costs, g \in TagChoices, p \in Profiles }

\* The resources of the downsize runs: low and high cpu_percent on large
\* instances, two of the descriptors resolving to the same instance_type.
DownsizeCosts == {5000, 12500}

DownsizeMetadata ==
  { "instance_type" :> Str_m5_4XLarge,
    "instance_type" :> Str_m5_4XLarge @@ "vm_size" :> Str_D4_xlarge,
    "instance_type" :> EmptyStr @@ "vm_size" :> Str_D4_xlarge,
    "machine_type" :> Str_n2_2xlarge }

DownsizeUniverse ==
  { [resource_id |-> 0, resource_type |-> "EC2", cost |-> c, tags |-> NoneDict,
     utilization |-> u, metadata |-> m] :
    c \in DownsizeCosts, u \in {"cpu_percent" :> 20, "cpu_percent" :> 50},
    m \in DownsizeMetadata }

\* The resources of the storage runs: storage and compute types around the
\* size of 100 GB, without a size and without metadata.
StorageCosts == {5000, 10000}

StorageMetadata ==
  { NoneDict, EmptyDict, "size_gb" :> 100, "size_gb" :> 101,
    "state" :> S_stopped }

StorageUniverse ==
  { [resource_id |-> 0, resource_type |-> t, cost |-> c, tags |-> NoneDict,
     utilization |-> NoneDict, metadata |-> m] :
    t \in {"EC2", "S3", "CloudStorage"}, c \in StorageCosts, m \in StorageMetadata }

Str_development == <<"d","e","v","e","l","o","p","m","e","n","t">>

Str_STAGING == <<"S","T","A","G","I","N","G">>

Str_qa == <<"q","a">>

Str_Test == <<"T","e","s","t">>

\* The tags of the tag runs: one choice per key; ENV is a key that the tag
\* rule does not read.
TagSets ==
  {NoneDict} \cup
  Combine2(Combine2({EmptyDict, "environment" :> Str_Dev,
                     "environment" :> Str_development, "environment" :> Str_prod},
                    {EmptyDict, "Environment" :> Str_STAGING,
                     "Environment" :> Str_prod}),
           Combine2({EmptyDict, "env" :> Str_qa, "env" :> Str_Test},
                    {EmptyDict, "ENV" :> S_dev}))

TagUniverse ==
  { [resource_id |-> 0, resource_type |-> "EC2", cost |-> 5000, tags |-> g,
     utilization |-> NoneDict, metadata |-> NoneDict] : g \in TagSets }

\* The resources of the runs on partial resources: each mapping absent,
\* empty, without a recognized key, or holding None for a key.
PartialTags ==
  { NoneDict, EmptyDict, "team" :> Str_Dev, "environment" :> NoneStr,
    "environment" :> Str_Dev @@ "env" :> NoneStr }

PartialUtilizations ==
  { NoneDict, EmptyDict, "cpu_percent" :> 0, "cpu_percent" :> NoneNum,
    "cpu_percent" :> 0 @@ "invocations" :> NoneNum }

PartialMetadata ==
  { NoneDict, EmptyDict, "state" :> NoneStr, "status" :> NoneStr,
    "instance_type" :> NoneStr, "size_gb" :> NoneNum,
    "instance_type" :> NoneStr @@ "vm_size" :> Str_D4_xlarge }

PartialUniverse ==
  { [resource_id |-> 0, resource_type |-> t, cost |-> 5000, tags |-> g,
     utilization |-> u, metadata |-> m] :
    t \in Types, g \in PartialTags, u \in PartialUtilizations,
    m \in PartialMetadata }

\* The resources of the averaging runs: two types, with no mapping, an
\* empty one, cpu_percent readings, or a mapping without cpu_percent.
AverageUtilizations ==
  {NoneDict, EmptyDict, "cpu_percent" :> 0, "cpu_percent" :> 5,
   "cpu_percent" :> 30, "invocations" :> 3}

AverageUniverse ==
  { [resource_id |-> 0, resource_type |-> t, cost |-> 5000, tags |-> NoneDict,
     utilization |-> u, metadata |-> NoneDict] :
    t \in {"EC2", "Lambda"}, u \in AverageUtilizations }

\* The resources of the runs on the unused list: stopped with zero readings,
\* stopped without readings, zero readings alone, or running and busy.
UnusedProfiles ==
  { [utilization |-> "cpu_percent" :> 0, metadata |-> "state" :> S_stopped],
    [utilization |-> NoneDict, metadata |-> "state" :> S_stopped],
    [utilization |-> "cpu_percent" :> 0, metadata |-> NoneDict],
    [utilization |-> "cpu_percent" :> 20, metadata |-> "state" :> <<"r", "u", "n">>] }

UnusedUniverse ==
  { [resource_id |-> 0, resource_type |-> t, cost |-> 5000, tags |-> NoneDict,
     utilization |-> p.utilization, metadata |-> p.metadata] :
    t \in Types, p \in UnusedProfiles }

\* The resources of the repeated runs: non-production EC2 instances.
RepeatUniverse ==
  { [resource_id |-> 0, resource_type |-> "EC2", cost |-> c,
     tags |-> "environment" :> Str_Dev,
     utilization |-> p.utilization, metadata |-> p.metadata] :
    c \in {5000, 60000}, p \in Profiles }

\* The resource ids of the applied recommendations: two EC2 instances and a
\* volume.
Id_i_1 == <<"i", "-", "1">>

Id_i_2 == <<"i", "-", "2">>

Id_vol_1 == <<"v", "o", "l", "-", "1">>

InstanceIds == {Id_i_1, Id_i_2}

ResourceIdLists == {<<Id_i_1>>, <<Id_i_1, Id_i_2>>, <<Id_vol_1>>, <<Id_vol_1, Id_i_2>>}

AppliedTypes == {"terminate_unused", "stop_idle", "schedule_stop", "downsize"}

\* What apply_optimizations is given: recommendations, or an entry that is
\* None.
GivenRecommendations ==
  { [ recommendation_type |-> t, priority |-> "medium", estimated_savings |-> 5000,
      resources |-> ids, details |-> [count |-> Len(ids)], risk_level |-> "low" ] :
    t \in AppliedTypes, ids \in ResourceIdLists } \cup {NoneDict}

ProviderNames == {S_aws, <<"A", "W", "S">>, S_azure, S_gcp, <<"o", "c", "i">>}

\* The arguments of the scheduler calls.
TagFilters == {"environment" :> Str_Dev}

ScheduleExpressions == {"weekends", "0 18 * * 5"}

ScheduleIds == -1..MaxSchedules

\* Resource ids are unique in a snapshot: the position in the list.
WithIds(list) == [i \in 1..Len(list) |-> [list[i] EXCEPT !.resource_id = i]]

Snapshots(U, n) == {WithIds(l) : l \in UNION {[1..k -> U] : k \in 0..n}}

\* What a service costs in a report: nothing, 1000 or 6000 dollars; the
\* long reports do without the last.
ServiceCosts == {0, 100000, 600000}

LongReportCosts == {0, 100000}

RECURSIVE SumSeq(_)

SumSeq(costs) ==
  IF Len(costs) = 0 THEN 0 ELSE SumSeq(SubSeq(costs, 1, Len(costs) - 1)) + costs[Len(costs)]

\* The CostData a provider builds: the total is accumulated with the
\* per-service costs; a service is named by its position of insertion.
CostDataOf(costs) ==
  [ total_cost |-> SumSeq(costs),
    costs_by_service |-> [i \in 1..Len(costs) |-> [service |-> i, cost |-> costs[i]]] ]

(***************************************************************************)
(* The fetch of AWSProvider.get_cost_data.  The account is what the cloud  *)
(* holds: for each resource family what the family's fetch had collected   *)
(* when it ended and whether it ended by an exception, the service costs   *)
(* of the cost report, and whether the cost query raises.                  *)
(***************************************************************************)
\* _get_ec2_instances, _get_rds_instances, _get_s3_buckets and
\* _get_lambda_functions: the exception is caught and logged, and the list
\* collected so far is returned.
get_family_resources(family) == family.found

\* AWSProvider._get_resources
get_resources(families) ==
  Concat([f \in 1..Len(families) |-> get_family_resources(families[f])])

\* AWSProvider.get_cost_data, when the cost query does not raise.
get_cost_data(acct) ==
  [ cost_data |-> CostDataOf(acct.costs),
    resources |-> WithIds(get_resources(acct.families)) ]

\* What the fetch of a family ends with: up to n resources of the type,
\* after a failure or not.
FamilyOutcomes(t, n) ==
  [ found : UNION {[1..k -> {r \in UnusedUniverse : r.resource_type = t}] : k \in 0..n},
    failed : BOOLEAN ]

\* The accounts of the fetch runs: a family of EC2 instances and one of S3
\* buckets.
Accounts(n) ==
  { [families |-> <<ec2, s3>>, costs |-> costs, cost_explorer_fails |-> fails] :
    ec2 \in FamilyOutcomes("EC2", n), s3 \in FamilyOutcomes("S3", n),
    costs \in {<<>>, <<100000>>}, fails \in BOOLEAN }

\* The cost reports: at most n services, or at most m with all the costs.
CostDatas(n, m) ==
  {CostDataOf(costs) :
     costs \in UNION ({[1..k -> LongReportCosts] : k \in 0..n}
                      \cup {[1..k -> ServiceCosts] : k \in 0..m})}

NoCostData == CostDataOf(<<>>)

NoCostAnalysis ==
  [ total_cost |-> 0, costs_by_service |-> <<>>, top_cost_drivers |-> <<>>,
    cost_trend |-> "stable", anomalies |-> <<>> ]

NoAnalysis ==
  [ total_resources |-> 0, unused_resources |-> <<>>,
    underutilized_resources |-> <<>>, overprovisioned_resources |-> <<>>,
    idle_resources |-> <<>>, resources_by_type |-> EmptyDict,
    average_utilization |-> EmptyDict ]

\* Nothing is being applied: the defaults of apply_optimizations.
NoRequest == [provider_name |-> S_aws, dry_run |-> TRUE]

NoCloud == [responses |-> <<>>, calls |-> <<>>]

NotApplying ==
  /\ request = NoRequest
  /\ cloud = NoCloud
  /\ apply_results = NoApplyResults

\* ResourceScheduler.__init__, before any call.
SchedulerInit == [schedules |-> <<>>]

NoCall == [op |-> "none", arg |-> 0, ret |-> FALSE]

NotScheduling ==
  /\ scheduler = SchedulerInit
  /\ call = NoCall
  /\ now = 0

NoAccount == [families |-> <<>>, costs |-> <<>>, cost_explorer_fails |-> FALSE]

NotFetching == account = NoAccount

(***************************************************************************)
(* The state machine: a snapshot is analysed, then recommendations are     *)
(* generated from the analysis and the same snapshot                       *)
(* (CloudFinOpsOptimizer.analyze_provider).                                *)
(***************************************************************************)
InitWith(U, n, cpuThresholds, savingsThresholds) ==
  /\ resources \in Snapshots(U, n)
  /\ config \in [cpu_threshold : cpuThresholds, savings_threshold : savingsThresholds]
  /\ analyzer = AnalyzerInit(config.cpu_threshold, DefaultIdleDays)
  /\ optimizer = OptimizerInit(config.savings_threshold)
  /\ pc = "input"
  /\ analysis = NoAnalysis
  /\ recommendations = <<>>
  /\ cost_data = NoCostData
  /\ cost_analysis = NoCostAnalysis
  /\ previous = <<>>
  /\ NotApplying /\ NotScheduling /\ NotFetching

Init ==
  InitWith(OptimizeUniverse, MaxResources, {DefaultCpuThreshold}, SavingsThresholds)

InitClassify ==
  InitWith(ClassifyUniverse, MaxClassified, CpuThresholds, {DefaultSavingsThreshold})

InitDownsize ==
  InitWith(DownsizeUniverse, MaxDownsized, {DefaultCpuThreshold}, SavingsThresholds)

InitStorage ==
  InitWith(StorageUniverse, MaxStored, {DefaultCpuThreshold}, SavingsThresholds)

InitAverage ==
  InitWith(AverageUniverse, MaxAveraged, {DefaultCpuThreshold}, {DefaultSavingsThreshold})

InitUnused ==
  InitWith(UnusedUniverse, MaxUnused, {DefaultCpuThreshold}, SavingsThresholds)

\* Without a threshold every selection of the generators is returned.
InitTags == InitWith(TagUniverse, MaxTagged, {DefaultCpuThreshold}, {0})

InitPartial == InitWith(PartialUniverse, MaxPartial, {DefaultCpuThreshold}, {0})

\* The cost runs analyse a cost report that names no resource.
InitCost ==
  /\ resources = <<>>
  /\ config = [cpu_threshold |-> DefaultCpuThreshold,
               savings_threshold |-> DefaultSavingsThreshold]
  /\ analyzer = AnalyzerInit(config.cpu_threshold, DefaultIdleDays)
  /\ optimizer = OptimizerInit(config.savings_threshold)
  /\ pc = "input"
  /\ analysis = NoAnalysis
  /\ recommendations = <<>>
  /\ cost_data \in CostDatas(MaxServices, MaxVaried)
  /\ cost_analysis = NoCostAnalysis
  /\ previous = <<>>
  /\ NotApplying /\ NotScheduling /\ NotFetching

\* The repeated runs analyse a cost report and a snapshot.
InitRepeat ==
  /\ resources \in Snapshots(RepeatUniverse, MaxRepeated)
  /\ config \in [cpu_threshold : {DefaultCpuThreshold},
                  savings_threshold : SavingsThresholds]
  /\ analyzer = AnalyzerInit(config.cpu_threshold, DefaultIdleDays)
  /\ optimizer = OptimizerInit(config.savings_threshold)
  /\ pc = "input"
  /\ analysis = NoAnalysis
  /\ recommendations = <<>>
  /\ cost_data \in CostDatas(MaxRepeated, MaxRepeated)
  /\ cost_analysis = NoCostAnalysis
  /\ previous = <<>>
  /\ NotApplying /\ NotScheduling /\ NotFetching

\* The actuation runs start from a list of recommendations.
InitApply ==
  /\ resources = <<>>
  /\ config = [cpu_threshold |-> DefaultCpuThreshold,
               savings_threshold |-> DefaultSavingsThreshold]
  /\ analyzer = AnalyzerInit(config.cpu_threshold, DefaultIdleDays)
  /\ optimizer = OptimizerInit(config.savings_threshold)
  /\ pc = "recommended"
  /\ analysis = NoAnalysis
  /\ recommendations \in UNION {[1..k -> GivenRecommendations] : k \in 0..MaxApplied}
  /\ cost_data = NoCostData
  /\ cost_analysis = NoCostAnalysis
  /\ previous = <<>>
  /\ request \in [provider_name : ProviderNames, dry_run : BOOLEAN]
  /\ cloud \in [responses : [InstanceIds -> BOOLEAN], calls : {<<>>}]
  /\ apply_results = NoApplyResults
  /\ NotScheduling /\ NotFetching

\* The scheduler runs start from a new ResourceScheduler.
InitSchedule ==
  /\ resources = <<>>
  /\ config = [cpu_threshold |-> DefaultCpuThreshold,
               savings_threshold |-> DefaultSavingsThreshold]
  /\ analyzer = AnalyzerInit(config.cpu_threshold, DefaultIdleDays)
  /\ optimizer = OptimizerInit(config.savings_threshold)
  /\ pc = "input"
  /\ analysis = NoAnalysis
  /\ recommendations = <<>>
  /\ cost_data = NoCostData
  /\ cost_analysis = NoCostAnalysis
  /\ previous = <<>>
  /\ NotApplying /\ NotScheduling /\ NotFetching

\* The fetch runs start before the provider is asked.
InitFetch ==
  /\ resources = <<>>
  /\ config \in [cpu_threshold : {DefaultCpuThreshold},
                  savings_threshold : SavingsThresholds]
  /\ analyzer = AnalyzerInit(config.cpu_threshold, DefaultIdleDays)
  /\ optimizer = OptimizerInit(config.savings_threshold)
  /\ pc = "start"
  /\ analysis = NoAnalysis
  /\ recommendations = <<>>
  /\ cost_data = NoCostData
  /\ cost_analysis = NoCostAnalysis
  /\ previous = <<>>
  /\ NotApplying /\ NotScheduling
  /\ account \in Accounts(MaxFetched)

\* CostAnalyzer.analyze
AnalyzeCosts ==
  /\ pc = "input"
  /\ IF cost_analyze_raises(cost_data)
     THEN pc' = "raised" /\ UNCHANGED cost_analysis
     ELSE cost_analysis' = cost_analyze(cost_data) /\ pc' = "costed"
  /\ UNCHANGED <<resources, config, analyzer, optimizer, analysis,
                 recommendations, cost_data, previous,
                 actuation, scheduling, account>>

\* ResourceAnalyzer.analyze
Analyze ==
  /\ pc = "input"
  /\ IF analyze_raises(resources)
     THEN pc' = "raised" /\ UNCHANGED analysis
     ELSE analysis' = analyze(resources, analyzer.cpu_threshold) /\ pc' = "analyzed"
  /\ UNCHANGED <<resources, config, analyzer, optimizer, recommendations,
                 cost_data, cost_analysis, previous,
                 actuation, scheduling, account>>

\* Optimizer.get_recommendations
GetRecommendations ==
  /\ pc = "analyzed"
  /\ IF get_recommendations_raises(analysis, resources)
     THEN pc' = "raised" /\ UNCHANGED recommendations
     ELSE /\ recommendations' = get_recommendations(optimizer, analysis, resources)
          /\ pc' = "recommended"
  /\ UNCHANGED <<resources, config, analyzer, optimizer, analysis,
                 cost_data, cost_analysis, previous,
                 actuation, scheduling, account>>

\* The three analyses of CloudFinOpsOptimizer.analyze_provider, in its
\* order: the cost analysis, the resource analysis, the recommendations.
\* None of the calls assigns an attribute of its object or changes its input.
RunAnalysis ==
  /\ pc = "input"
  /\ IF \/ cost_analyze_raises(cost_data)
        \/ analyze_raises(resources)
        \/ get_recommendations_raises(analyze(resources, analyzer.cpu_threshold),
                                      resources)
     THEN pc' = "raised" /\ UNCHANGED <<cost_analysis, analysis, recommendations>>
     ELSE /\ cost_analysis' = cost_analyze(cost_data)
          /\ analysis' = analyze(resources, analyzer.cpu_threshold)
          /\ recommendations' = get_recommendations(optimizer, analysis', resources)
          /\ pc' = "recommended"
  /\ UNCHANGED <<resources, config, analyzer, optimizer, cost_data, previous,
                 actuation, scheduling, account>>

\* The caller keeps the outputs of the pass and runs the analyses again on
\* the same objects and the same input.
Repeat ==
  /\ pc = "recommended"
  /\ Len(previous) < MaxPasses - 1
  /\ previous' = Append(previous, [cost_analysis |-> cost_analysis,
                                    analysis |-> analysis,
                                    recommendations |-> recommendations])
  /\ pc' = "input"
  /\ UNCHANGED <<resources, config, analyzer, optimizer, analysis,
                 recommendations, cost_data, cost_analysis,
                 actuation, scheduling, account>>

\* CloudFinOpsOptimizer.apply_optimizations
ApplyOptimizations ==
  /\ pc = "recommended"
  /\ LET provider == get_provider(request.provider_name)
     IN IF provider = "ValueError"
        THEN pc' = "raised" /\ UNCHANGED <<cloud, apply_results>>
        ELSE LET out == apply_optimizations(provider, recommendations,
                                            request.dry_run, cloud.responses)
             IN /\ apply_results' = out.results
                /\ cloud' = [cloud EXCEPT !.calls = @ \o out.calls]
                /\ pc' = "applied"
  /\ UNCHANGED <<resources, config, analyzer, optimizer, analysis,
                 recommendations, cost_data, cost_analysis, previous,
                 request, scheduling, account>>

Next == Analyze \/ GetRecommendations

Spec == Init /\ [][Next]_vars

\* The classification runs stop at the analysis.
NextClassify == Analyze

SpecClassify == InitClassify /\ [][NextClassify]_vars

SpecAverage == InitAverage /\ [][NextClassify]_vars

SpecDownsize == InitDownsize /\ [][Next]_vars

SpecUnused == InitUnused /\ [][Next]_vars

SpecStorage == InitStorage /\ [][Next]_vars

SpecTags == InitTags /\ [][Next]_vars

SpecPartial == InitPartial /\ [][Next]_vars

NextRepeat == RunAnalysis \/ Repeat

SpecRepeat == InitRepeat /\ [][NextRepeat]_vars

NextApply == ApplyOptimizations

SpecApply == InitApply /\ [][NextApply]_vars

\* The variables no scheduler call touches.
analysisVars ==
  <<resources, config, analyzer, optimizer, pc, analysis, recommendations,
    cost_data, cost_analysis, previous>>

\* ResourceScheduler.schedule_stop; the clock has advanced since the last
\* reading, or has not.
ScheduleStop ==
  /\ Len(scheduler.schedules) < MaxSchedules
  /\ \E tag_filter \in TagFilters, schedule \in ScheduleExpressions,
        created_at \in {now, now + 1} :
       /\ created_at <= MaxClock
       /\ LET out == schedule_stop(scheduler, tag_filter, schedule, created_at)
          IN /\ scheduler' = out.self
             /\ call' = [op |-> "schedule_stop", arg |-> 0, ret |-> out.ret]
       /\ now' = created_at
  /\ UNCHANGED <<analysisVars, actuation, account>>

\* ResourceScheduler.schedule_start
ScheduleStart ==
  /\ Len(scheduler.schedules) < MaxSchedules
  /\ \E tag_filter \in TagFilters, schedule \in ScheduleExpressions,
        created_at \in {now, now + 1} :
       /\ created_at <= MaxClock
       /\ LET out == schedule_start(scheduler, tag_filter, schedule, created_at)
          IN /\ scheduler' = out.self
             /\ call' = [op |-> "schedule_start", arg |-> 0, ret |-> out.ret]
       /\ now' = created_at
  /\ UNCHANGED <<analysisVars, actuation, account>>

\* ResourceScheduler.remove_schedule
RemoveSchedule ==
  /\ \E schedule_id \in ScheduleIds :
       LET out == remove_schedule(scheduler, schedule_id)
       IN /\ scheduler' = out.self
          /\ call' = [op |-> "remove_schedule", arg |-> schedule_id, ret |-> out.ret]
  /\ UNCHANGED <<now, analysisVars, actuation, account>>

NextSchedule == ScheduleStop \/ ScheduleStart \/ RemoveSchedule

SpecSchedule == InitSchedule /\ [][NextSchedule]_vars

\* The fetch of CloudFinOpsOptimizer.analyze_provider: an exception that
\* leaves provider.get_cost_data ends the pass with success False.
FetchCostData ==
  /\ pc = "start"
  /\ IF account.cost_explorer_fails
     THEN pc' = "fetch_failed" /\ UNCHANGED <<resources, cost_data>>
     ELSE /\ resources' = get_cost_data(account).resources
          /\ cost_data' = get_cost_data(account).cost_data
          /\ pc' = "input"
  /\ UNCHANGED <<config, analyzer, optimizer, analysis, recommendations,
                 cost_analysis, previous, actuation, scheduling, account>>

NextFetch == FetchCostData \/ RunAnalysis

SpecFetch == InitFetch /\ [][NextFetch]_vars

\* The cost runs stop at the cost analysis.
NextCost == AnalyzeCosts

SpecCost == InitCost /\ [][NextCost]_vars

(***************************************************************************)
(* Vocabulary of the properties.                                           *)
(***************************************************************************)
Analyzed == pc \in {"analyzed", "recommended"}

Recommended == pc = "recommended"

Indices == 1..Len(resources)

\* The i-th input resource is in the list.
Member(i, list) == \E j \in 1..Len(list) : list[j] = resources[i]

InUnused(i) == Member(i, analysis.unused_resources)

InIdle(i) == Member(i, analysis.idle_resources)

InUnderutilized(i) == Member(i, analysis.underutilized_resources)

InOverprovisioned(i) == Member(i, analysis.overprovisioned_resources)

\* The resource has readings: a utilization mapping that is there and not empty.
HasUtilization(r) == ~IsNone(r.utilization) /\ DOMAIN r.utilization # {}

\* The reading as the analyzer takes it: a key the mapping lacks reads 0.
CpuReading(r) ==
  IF "cpu_percent" \in DOMAIN r.utilization THEN r.utilization["cpu_percent"] ELSE 0

InvocationReading(r) ==
  IF "invocations" \in DOMAIN r.utilization THEN r.utilization["invocations"] ELSE 0

ReadsZero(r) == HasUtilization(r) /\ CpuReading(r) = 0 /\ InvocationReading(r) = 0

LacksCpu(r) == ~HasUtilization(r) \/ "cpu_percent" \notin DOMAIN r.utilization

LacksInvocations(r) == ~HasUtilization(r) \/ "invocations" \notin DOMAIN r.utilization

\* The metadata field, lower-cased, is one of stopped, terminated, deallocated.
StoppedValue(r, field) ==
  /\ ~IsNone(r.metadata)
  /\ field \in DOMAIN r.metadata
  /\ Lower(r.metadata[field]) \in {S_stopped, S_terminated, S_deallocated}

\* The instance-size descriptor: the first of instance_type, vm_size,
\* machine_type that is there with a non-empty value.
HasField(m, field) == field \in DOMAIN m /\ Len(m[field]) > 0

Descriptor(m) ==
  IF HasField(m, "instance_type") THEN m["instance_type"]
  ELSE IF HasField(m, "vm_size") THEN m["vm_size"]
  ELSE IF HasField(m, "machine_type") THEN m["machine_type"]
  ELSE EmptyStr

(***************************************************************************)
(* C3: a resource is in the unused list if and only if its metadata state  *)
(* or status, case-insensitively, is one of stopped, terminated,           *)
(* deallocated (each value for either field), or its utilization reads     *)
(* cpu_percent 0 and invocations 0.                                        *)
(* Fails: the code accepts only stopped/terminated for state and only      *)
(* stopped/deallocated for status.                                         *)
(***************************************************************************)
C3_UnusedIffStoppedOrZero ==
  Analyzed =>
    \A i \in Indices :
      InUnused(i) <=>
        \/ StoppedValue(resources[i], "state")
        \/ StoppedValue(resources[i], "status")
        \/ ReadsZero(resources[i])

(***************************************************************************)
(* C4: the idle list is set-equal to the part of the unused list whose     *)
(* resources read cpu_percent 0 and invocations 0; every idle resource is  *)
(* in the unused list.                                                     *)
(***************************************************************************)
C4_IdleIsZeroPartOfUnused ==
  Analyzed =>
    /\ {i \in Indices : InIdle(i)}
         = {i \in Indices : InUnused(i) /\ ReadsZero(resources[i])}
    /\ \A i \in Indices : InIdle(i) => InUnused(i)

\* An idle resource that is also stopped by lifecycle, so that both rules
\* of the unused list match it.
C4_Witness ==
  /\ Analyzed
  /\ \E i \in Indices : InIdle(i) /\ InUnused(i) /\ LifecycleStopped(resources[i])

(***************************************************************************)
(* C5 as stated: a resource whose utilization mapping is absent, or lacks  *)
(* cpu_percent, or lacks the invocation count, is not classified           *)
(* unused-by-zero-utilization, idle, underutilized or overprovisioned on   *)
(* the strength of the missing value.                                      *)
(* Fails: a mapping that is there reads a missing key as 0.                *)
(***************************************************************************)
C5_MissingValueNeverZero ==
  Analyzed =>
    \A i \in Indices :
      LET r == resources[i]
      IN /\ (LacksCpu(r) \/ LacksInvocations(r)) =>
              /\ ~InIdle(i)
              /\ ~(InUnused(i) /\ ~LifecycleStopped(r))
         /\ LacksCpu(r) => (~InUnderutilized(i) /\ ~InOverprovisioned(i))

(***************************************************************************)
(* C5 amended: a resource whose utilization mapping is absent or empty is  *)
(* never classified idle, underutilized, overprovisioned or                *)
(* unused-by-zero-utilization; in a non-empty mapping a missing            *)
(* cpu_percent or invocation count is read as 0 (so such a resource is     *)
(* idle and unused when the other reading is 0, and is never               *)
(* underutilized on a missing cpu_percent).                                *)
(***************************************************************************)
C5_AbsentMappingIsUnknown ==
  Analyzed =>
    \A i \in Indices :
      LET r == resources[i]
      IN /\ ~HasUtilization(r) =>
              /\ ~InIdle(i)
              /\ ~InUnderutilized(i)
              /\ ~InOverprovisioned(i)
              /\ InUnused(i) => LifecycleStopped(r)
         /\ HasUtilization(r) =>
              /\ InIdle(i) <=> (CpuReading(r) = 0 /\ InvocationReading(r) = 0)
              /\ LacksCpu(r) => ~InUnderutilized(i)

\* A resource without a utilization mapping on a large instance, stopped by
\* lifecycle: unused, and neither idle nor overprovisioned.
C5_Witness ==
  /\ Analyzed
  /\ \E i \in Indices :
        /\ IsNone(resources[i].utilization)
        /\ ~IsNone(resources[i].metadata)
        /\ Descriptor(resources[i].metadata) = Str_m5_4XLarge
        /\ InUnused(i)
        /\ ~InIdle(i)
        /\ ~InOverprovisioned(i)

(***************************************************************************)
(* C6: a resource is in the underutilized list if and only if its          *)
(* utilization reports a cpu_percent with 0 < cpu_percent < cpu_threshold  *)
(* (both strict); no resource is both underutilized and idle.              *)
(***************************************************************************)
C6_UnderutilizedIffBetween ==
  Analyzed =>
    \A i \in Indices :
      LET r == resources[i]
      IN /\ InUnderutilized(i) <=>
              /\ HasUtilization(r)
              /\ "cpu_percent" \in DOMAIN r.utilization
              /\ 0 < r.utilization["cpu_percent"]
              /\ r.utilization["cpu_percent"] < config.cpu_threshold
         /\ ~(InUnderutilized(i) /\ InIdle(i))

\* Under the default threshold a resource at cpu_percent 5 is underutilized
\* and not idle.
C6_Witness ==
  /\ Analyzed
  /\ config.cpu_threshold = DefaultCpuThreshold
  /\ \E i \in Indices :
        InUnderutilized(i) /\ CpuReading(resources[i]) = 5 /\ ~InIdle(i)

(***************************************************************************)
(* C7: a resource is in the overprovisioned list if and only if its        *)
(* cpu_percent (as read, see C5) is strictly below 30 and its              *)
(* instance-size descriptor, the first present of instance_type, vm_size,  *)
(* machine_type, contains case-insensitively one of xlarge, 2xlarge,       *)
(* 4xlarge, 8xlarge.                                                       *)
(***************************************************************************)
C7_OverprovisionedIffLowCpuLargeSize ==
  Analyzed =>
    \A i \in Indices :
      LET r == resources[i]
      IN InOverprovisioned(i) <=>
           /\ HasUtilization(r)
           /\ CpuReading(r) < 30
           /\ ~IsNone(r.metadata)
           /\ \E size \in {S_xlarge, S_2xlarge, S_4xlarge, S_8xlarge} :
                 Contains(size, Lower(Descriptor(r.metadata)))

\* A large vm_size behind an empty instance_type makes a resource with a
\* low cpu_percent overprovisioned.
C7_Witness ==
  /\ Analyzed
  /\ \E i \in Indices :
        /\ InOverprovisioned(i)
        /\ "instance_type" \in DOMAIN resources[i].metadata
        /\ Descriptor(resources[i].metadata) = Str_D4_xlarge

(***************************************************************************)
(* Vocabulary of the recommendation properties.                            *)
(***************************************************************************)
RecIndices == 1..Len(recommendations)

RecsOfType(type) ==
  {k \in RecIndices : recommendations[k].recommendation_type = type}

\* The ids a recommendation names, as a set.
IdSet(rec) == {rec.resources[j] : j \in 1..Len(rec.resources)}

RECURSIVE CostOfIds(_)

\* The summed cost of the input resources with the given ids.
CostOfIds(S) ==
  IF S = {} THEN 0
  ELSE LET i == CHOOSE i \in S : TRUE
       IN resources[i].cost + CostOfIds(S \ {i})

(***************************************************************************)
(* C1: every recommendation returned by get_recommendations has estimated  *)
(* savings greater than or equal to the caller's savings_threshold.        *)
(***************************************************************************)
C1_SavingsAtLeastThreshold ==
  Recommended =>
    \A k \in RecIndices :
      recommendations[k].estimated_savings >= config.savings_threshold

\* A positive threshold under which one candidate is returned and another, an
\* unused resource cheaper than the threshold, is not.
C1_Witness ==
  /\ Recommended
  /\ config.savings_threshold > 0
  /\ Len(recommendations) > 0
  /\ \E i \in Indices :
        /\ InUnused(i)
        /\ resources[i].cost < config.savings_threshold
        /\ \A k \in RecIndices : i \notin IdSet(recommendations[k])

(***************************************************************************)
(* C2: the returned list is sorted by estimated savings in non-increasing  *)
(* order: output[i].estimated_savings >= output[i+1].estimated_savings.    *)
(***************************************************************************)
C2_SortedBySavingsDescending ==
  Recommended =>
    \A k \in RecIndices :
      k + 1 \in RecIndices =>
        recommendations[k].estimated_savings
          >= recommendations[k + 1].estimated_savings

\* A recommendation of a later generator is returned ahead of a
\* terminate-unused one with strictly smaller savings.
C2_Witness ==
  /\ Recommended
  /\ \E k \in RecIndices :
        /\ k + 1 \in RecIndices
        /\ recommendations[k].recommendation_type = "schedule_stop"
        /\ recommendations[k + 1].recommendation_type = "terminate_unused"
        /\ recommendations[k].estimated_savings
             > recommendations[k + 1].estimated_savings

\* The unused resources of one type, by id.
UnusedOfType(t) == {i \in Indices : InUnused(i) /\ resources[i].resource_type = t}

TerminateRecsFor(t) ==
  {k \in RecsOfType("terminate_unused") :
     recommendations[k].details.resource_type = t}

(***************************************************************************)
(* C8: the unused resources are grouped by resource type; each type whose  *)
(* summed cost is at least savings_threshold gets exactly one              *)
(* TERMINATE_UNUSED recommendation whose savings is the full summed cost   *)
(* and whose resource ids are exactly the ids of the group; a group below  *)
(* the threshold, and a type with no unused resource, gets none.           *)
(***************************************************************************)
C8_TerminateUnusedPerType ==
  Recommended =>
    \A t \in Types :
      LET group == UnusedOfType(t)
          recs == TerminateRecsFor(t)
      IN IF group # {} /\ CostOfIds(group) >= config.savings_threshold
         THEN /\ Cardinality(recs) = 1
              /\ \A k \in recs :
                    /\ recommendations[k].estimated_savings = CostOfIds(group)
                    /\ IdSet(recommendations[k]) = group
                    /\ Len(recommendations[k].resources) = Cardinality(group)
         ELSE recs = {}

\* Two unused resources of different types: the group that reaches the
\* threshold exactly is recommended, the group below it is not.
C8_Witness ==
  /\ Recommended
  /\ \E t \in Types :
        /\ UnusedOfType(t) # {}
        /\ CostOfIds(UnusedOfType(t)) = config.savings_threshold
        /\ TerminateRecsFor(t) # {}
  /\ \E t \in Types :
        /\ UnusedOfType(t) # {}
        /\ CostOfIds(UnusedOfType(t)) < config.savings_threshold
        /\ TerminateRecsFor(t) = {}

(***************************************************************************)
(* C9: a TERMINATE_UNUSED recommendation has priority high if and only if  *)
(* its savings is strictly greater than 500 dollars, medium otherwise;     *)
(* STOP_IDLE and DOWNSIZE are always medium, SCHEDULE_STOP and             *)
(* MOVE_STORAGE always low.                                                *)
(***************************************************************************)
C9_Priorities ==
  Recommended =>
    \A k \in RecIndices :
      LET rec == recommendations[k]
      IN /\ rec.recommendation_type = "terminate_unused" =>
              rec.priority = (IF rec.estimated_savings > 50000
                              THEN "high" ELSE "medium")
         /\ rec.recommendation_type \in {"stop_idle", "downsize"} =>
              rec.priority = "medium"
         /\ rec.recommendation_type \in {"schedule_stop", "move_storage"} =>
              rec.priority = "low"

\* One terminate-unused recommendation of exactly 500 dollars is medium,
\* another above 500 dollars is high.
C9_Witness ==
  /\ Recommended
  /\ \E k \in RecsOfType("terminate_unused") :
        /\ recommendations[k].estimated_savings = 50000
        /\ recommendations[k].priority = "medium"
  /\ \E k \in RecsOfType("terminate_unused") :
        /\ recommendations[k].estimated_savings > 50000
        /\ recommendations[k].priority = "high"

\* The idle resources that are non-production by the tag rule, by id.
IdleNonProduction == {i \in Indices : InIdle(i) /\ is_non_production(resources[i])}

(***************************************************************************)
(* C10: at most one STOP_IDLE recommendation is emitted; it names exactly  *)
(* the idle resources that are non-production by the tag rule, its savings *)
(* is 70% of their summed cost, and no idle production resource is in it.  *)
(* It is emitted when there is such a resource and the savings reach the   *)
(* threshold.                                                              *)
(***************************************************************************)
C10_StopIdleNonProduction ==
  Recommended =>
    LET recs == RecsOfType("stop_idle")
    IN /\ Cardinality(recs) <= 1
       /\ \A k \in recs :
             /\ IdSet(recommendations[k]) = IdleNonProduction
             /\ Len(recommendations[k].resources) = Cardinality(IdleNonProduction)
             /\ 10 * recommendations[k].estimated_savings
                  = 7 * CostOfIds(IdleNonProduction)
             /\ \A i \in Indices :
                   (InIdle(i) /\ ~is_non_production(resources[i])) =>
                     i \notin IdSet(recommendations[k])
       /\ recs # {} <=>
             /\ IdleNonProduction # {}
             /\ 7 * CostOfIds(IdleNonProduction) >= 10 * config.savings_threshold

\* An idle development resource and an idle production resource: the
\* recommendation names the first only.
C10_Witness ==
  /\ Recommended
  /\ \E k \in RecsOfType("stop_idle") :
        /\ recommendations[k].estimated_savings > 0
        /\ \E i \in Indices : i \in IdSet(recommendations[k])
        /\ \E j \in Indices :
              InIdle(j) /\ j \notin IdSet(recommendations[k])

(***************************************************************************)
(* Vocabulary of the generator properties.                                 *)
(***************************************************************************)
\* The recommendations of one type that name the i-th input resource.
RecsNaming(type, i) == {k \in RecsOfType(type) : i \in IdSet(recommendations[k])}

\* The overprovisioned resources whose instance-size descriptor is d, by id.
OverprovisionedWith(d) ==
  {i \in Indices : InOverprovisioned(i) /\ Descriptor(resources[i].metadata) = d}

DescriptorsFound ==
  {Descriptor(resources[i].metadata) : i \in {j \in Indices : InOverprovisioned(j)}}

DownsizeRecsFor(d) ==
  {k \in RecsOfType("downsize") :
     recommendations[k].details.current_instance_type = d}

(***************************************************************************)
(* C11: the overprovisioned resources are grouped by their instance-size   *)
(* descriptor (instance_type, then vm_size, then machine_type); each group *)
(* gets one DOWNSIZE recommendation that names exactly the group, with     *)
(* savings of 40% of the group's summed cost (a group whose savings are    *)
(* below the threshold is not returned, C1); every DOWNSIZE recommendation *)
(* is that of a group, and each overprovisioned resource is in at most one *)
(* of them.                                                                *)
(***************************************************************************)
C11_DownsizePerDescriptor ==
  Recommended =>
    /\ \A d \in DescriptorsFound :
          LET group == OverprovisionedWith(d)
              recs == DownsizeRecsFor(d)
          IN IF 4 * CostOfIds(group) >= 10 * config.savings_threshold
             THEN /\ Cardinality(recs) = 1
                  /\ \A k \in recs :
                        /\ 10 * recommendations[k].estimated_savings
                             = 4 * CostOfIds(group)
                        /\ IdSet(recommendations[k]) = group
                        /\ Len(recommendations[k].resources) = Cardinality(group)
             ELSE recs = {}
    /\ \A k \in RecsOfType("downsize") :
          recommendations[k].details.current_instance_type \in DescriptorsFound
    /\ \A i \in Indices :
          /\ Cardinality(RecsNaming("downsize", i)) <= 1
          /\ ~InOverprovisioned(i) => RecsNaming("downsize", i) = {}

\* Three overprovisioned resources in two groups: two of them differ in
\* metadata and share the instance_type, the third is sized by its vm_size.
C11_Witness ==
  /\ Recommended
  /\ \E k1, k2 \in RecsOfType("downsize") :
        /\ k1 # k2
        /\ recommendations[k2].details.current_instance_type = Str_D4_xlarge
        /\ \E i, j \in IdSet(recommendations[k1]) :
              /\ i # j
              /\ resources[i].metadata # resources[j].metadata

\* The non-production resources of the snapshot, by id.
NonProduction == {i \in Indices : is_non_production(resources[i])}

(***************************************************************************)
(* C12: at most one SCHEDULE_STOP recommendation is emitted; it names      *)
(* exactly the non-production resources of the full list, idle or not, and *)
(* its savings is 30% of their summed cost, whatever the stop-idle         *)
(* generator emitted.  It is returned when there is such a resource and    *)
(* the savings reach the threshold.                                        *)
(***************************************************************************)
C12_ScheduleStopFullList ==
  Recommended =>
    LET recs == RecsOfType("schedule_stop")
    IN /\ Cardinality(recs) <= 1
       /\ \A k \in recs :
             /\ IdSet(recommendations[k]) = NonProduction
             /\ Len(recommendations[k].resources) = Cardinality(NonProduction)
             /\ 10 * recommendations[k].estimated_savings
                  = 3 * CostOfIds(NonProduction)
       /\ recs # {} <=>
             /\ NonProduction # {}
             /\ 3 * CostOfIds(NonProduction) >= 10 * config.savings_threshold

\* A stop-idle recommendation is returned, and the schedule-stop one names
\* its resource and a non-production resource that is not idle.
C12_Witness ==
  /\ Recommended
  /\ \E s \in RecsOfType("stop_idle"), k \in RecsOfType("schedule_stop") :
        /\ IdSet(recommendations[s]) \subseteq IdSet(recommendations[k])
        /\ \E i \in IdSet(recommendations[k]) : ~InIdle(i)

\* The storage resources with a size_gb above 100, by id.
LargeStorage ==
  {i \in Indices :
     /\ resources[i].resource_type \in {"S3", "StorageAccount", "CloudStorage"}
     /\ ~IsNone(resources[i].metadata)
     /\ "size_gb" \in DOMAIN resources[i].metadata
     /\ resources[i].metadata["size_gb"] > 100}

(***************************************************************************)
(* C13: at most one MOVE_STORAGE recommendation is emitted; it names       *)
(* exactly the resources of a storage type whose metadata size_gb is       *)
(* strictly greater than 100 (a size_gb of 100, no size_gb and no metadata *)
(* are excluded), and its savings is 50% of their summed cost.  It is      *)
(* returned when there is such a resource and the savings reach the        *)
(* threshold.                                                              *)
(***************************************************************************)
C13_MoveStorageAbove100 ==
  Recommended =>
    LET recs == RecsOfType("move_storage")
    IN /\ Cardinality(recs) <= 1
       /\ \A k \in recs :
             /\ IdSet(recommendations[k]) = LargeStorage
             /\ Len(recommendations[k].resources) = Cardinality(LargeStorage)
             /\ 10 * recommendations[k].estimated_savings
                  = 5 * CostOfIds(LargeStorage)
       /\ recs # {} <=>
             /\ LargeStorage # {}
             /\ 5 * CostOfIds(LargeStorage) >= 10 * config.savings_threshold

\* A bucket of 101 GB is named, a bucket of exactly 100 GB beside it is not.
C13_Witness ==
  /\ Recommended
  /\ \E k \in RecsOfType("move_storage"), i, j \in Indices :
        /\ i \in IdSet(recommendations[k])
        /\ j \notin IdSet(recommendations[k])
        /\ resources[j].resource_type = resources[i].resource_type
        /\ resources[j].metadata = "size_gb" :> 100

\* The tag rule as stated: one of the three keys, spelled so, has a value
\* that lower-cased is one of the five environments.
NonProductionByTags(r) ==
  /\ ~IsNone(r.tags)
  /\ \E key \in {"environment", "Environment", "env"} :
        /\ key \in DOMAIN r.tags
        /\ Lower(r.tags[key]) \in {S_dev, S_development, S_test, S_staging, S_qa}

(***************************************************************************)
(* C14: a resource is non-production, which without a threshold shows as   *)
(* being named by the SCHEDULE_STOP recommendation, if and only if one of  *)
(* the tag keys environment, Environment, env (case-sensitive, each        *)
(* checked on its own) has a value that lower-cased is one of dev,         *)
(* development, test, staging, qa; a resource with no tags or with none of *)
(* the keys is production.                                                 *)
(***************************************************************************)
C14_NonProductionIffTagged ==
  Recommended =>
    \A i \in Indices :
      RecsNaming("schedule_stop", i) # {} <=> NonProductionByTags(resources[i])

\* A resource whose environment says prod is non-production by its env tag,
\* whose value is not in lower case.
C14_Witness ==
  /\ Recommended
  /\ \E i \in Indices :
        /\ RecsNaming("schedule_stop", i) # {}
        /\ ~IsNone(resources[i].tags)
        /\ {"environment", "env"} \subseteq DOMAIN resources[i].tags
        /\ resources[i].tags["environment"] = Str_prod
        /\ resources[i].tags["env"] = Str_Test

(***************************************************************************)
(* C15: ResourceAnalyzer.analyze and Optimizer.get_recommendations never   *)
(* raise for a partial resource: whatever mapping is absent, lacks a       *)
(* recognized key or holds None for a key, the call completes.             *)
(* Fails: lower() on a state, status or environment tag that is None, and  *)
(* the comparison of a cpu_percent or size_gb that is None with a number,  *)
(* raise.                                                                  *)
(***************************************************************************)
C15_NeverRaises == pc # "raised"

(***************************************************************************)
(* Vocabulary of the cost properties.                                      *)
(***************************************************************************)
Costed == pc = "costed"

\* The services of the report, each named by its position in the mapping.
Services == 1..Len(cost_data.costs_by_service)

ServiceCost(sv) == cost_data.costs_by_service[sv].cost

TopDrivers == cost_analysis.top_cost_drivers

TopIndices == 1..Len(TopDrivers)

TopServices == {TopDrivers[j].service : j \in TopIndices}

RECURSIVE SumOver(_, _)

\* The sum of f over the set S of integers.
SumOver(f, S) ==
  IF S = {} THEN 0
  ELSE LET x == CHOOSE x \in S : TRUE IN f[x] + SumOver(f, S \ {x})

AnomaliesOfType(type) ==
  {a \in 1..Len(cost_analysis.anomalies) : cost_analysis.anomalies[a].type = type}

(***************************************************************************)
(* C16: top_cost_drivers has at most 10 entries, all of them (or 10, when  *)
(* there are more) when the total is not zero; each entry is a service of  *)
(* costs_by_service with its cost and percentage = 100 * cost / total; the *)
(* entries are in non-increasing order of cost, equal costs in the order   *)
(* of the mapping; no service left out costs more than an entry.           *)
(***************************************************************************)
C16_TopTenDrivers ==
  Costed =>
    /\ Len(TopDrivers) <= 10
    /\ cost_data.total_cost # 0 =>
          Len(TopDrivers) = (IF Cardinality(Services) > 10
                             THEN 10 ELSE Cardinality(Services))
    /\ Cardinality(TopServices) = Len(TopDrivers)
    /\ \A j \in TopIndices :
          /\ TopDrivers[j].service \in Services
          /\ TopDrivers[j].cost = ServiceCost(TopDrivers[j].service)
          /\ TopDrivers[j].percentage
               = [num |-> 100 * TopDrivers[j].cost, den |-> cost_data.total_cost]
          /\ j + 1 \in TopIndices =>
                \/ TopDrivers[j].cost > TopDrivers[j + 1].cost
                \/ /\ TopDrivers[j].cost = TopDrivers[j + 1].cost
                   /\ TopDrivers[j].service < TopDrivers[j + 1].service
          /\ \A sv \in Services \ TopServices :
                \/ ServiceCost(sv) < TopDrivers[j].cost
                \/ /\ ServiceCost(sv) = TopDrivers[j].cost
                   /\ TopDrivers[j].service < sv

\* Eleven services: the last of the mapping is the first driver, two
\* drivers of equal cost follow, and a service of that cost is left out.
C16_Witness ==
  /\ Costed
  /\ Cardinality(Services) = 11
  /\ Len(TopDrivers) = 10
  /\ TopDrivers[1].service = 11
  /\ TopDrivers[1].cost > TopDrivers[2].cost
  /\ TopDrivers[9].cost = TopDrivers[10].cost
  /\ \E sv \in Services \ TopServices : ServiceCost(sv) = TopDrivers[10].cost

C18_NoDivisionByZero ==
  /\ pc # "raised"
  /\ Costed =>
        /\ (cost_data.total_cost = 0 /\ Services # {}) => TopDrivers = <<>>
        /\ Services = {} =>
              (TopDrivers = <<>> /\ cost_analysis.anomalies = <<>>)

\* A report of two services that cost nothing has been analysed.
C18_Witness ==
  /\ Costed
  /\ cost_data.total_cost = 0
  /\ Cardinality(Services) = 2
  /\ TopDrivers = <<>>
  /\ cost_analysis.total_cost = 0

(***************************************************************************)
(* C19: there is exactly one high_total_cost anomaly, of severity warning  *)
(* and carrying the total, if and only if the total is strictly greater    *)
(* than 10000 dollars, whether or not a high_service_cost anomaly is       *)
(* there; a total of exactly 10000 dollars has none.                       *)
(***************************************************************************)
C19_HighTotalAbove10000 ==
  Costed =>
    LET highs == AnomaliesOfType("high_total_cost")
    IN IF cost_data.total_cost > 1000000
       THEN /\ Cardinality(highs) = 1
            /\ \A a \in highs :
                  /\ cost_analysis.anomalies[a].severity = "warning"
                  /\ cost_analysis.anomalies[a].value = cost_data.total_cost
       ELSE highs = {}

\* A total above 10000 dollars with a service above three times the
\* average: both anomalies are there.
C19_Witness ==
  /\ Costed
  /\ cost_data.total_cost > 1000000
  /\ AnomaliesOfType("high_total_cost") # {}
  /\ AnomaliesOfType("high_service_cost") # {}

\* The high_service_cost anomalies that name the service.
HighServiceAnomalies(sv) ==
  {a \in AnomaliesOfType("high_service_cost") :
     cost_analysis.anomalies[a].service = sv}

(***************************************************************************)
(* C20: each service whose cost is strictly greater than 3 times the       *)
(* average (the total over the number of services) has exactly one         *)
(* high_service_cost anomaly, of severity info and carrying its cost; no   *)
(* other service has one, and there is none without services; several may  *)
(* be emitted in one pass.                                                 *)
(***************************************************************************)
C20_HighServiceAbove3Avg ==
  Costed =>
    /\ \A sv \in Services :
          IF ServiceCost(sv) * Cardinality(Services) > 3 * cost_data.total_cost
          THEN /\ Cardinality(HighServiceAnomalies(sv)) = 1
               /\ \A a \in HighServiceAnomalies(sv) :
                     /\ cost_analysis.anomalies[a].severity = "info"
                     /\ cost_analysis.anomalies[a].value = ServiceCost(sv)
          ELSE HighServiceAnomalies(sv) = {}
    /\ \A a \in AnomaliesOfType("high_service_cost") :
          cost_analysis.anomalies[a].service \in Services

\* Two services are flagged in one pass, a third that costs less is not.
C20_Witness ==
  /\ Costed
  /\ Cardinality(AnomaliesOfType("high_service_cost")) = 2
  /\ \E sv \in Services : ServiceCost(sv) > 0 /\ HighServiceAnomalies(sv) = {}

(***************************************************************************)
(* Averages                                                                *)
(***************************************************************************)
\* The input resources of type t that report a utilization mapping.
Reporting(t) ==
  {i \in Indices : resources[i].resource_type = t /\ HasUtilization(resources[i])}

TypesPresent == {resources[i].resource_type : i \in Indices}

(***************************************************************************)
(* C21: average_utilization maps a resource type to the arithmetic mean of *)
(* cpu_percent (a missing reading counting as 0) over exactly the          *)
(* resources of that type that report a utilization mapping: resources     *)
(* without one are in neither the sum nor the count, and a type none of    *)
(* whose resources reports a mapping has no entry.                         *)
(***************************************************************************)
C21_AverageOverReporting ==
  Analyzed =>
    LET avg == analysis.average_utilization
        reading == [i \in Indices |->
                      IF HasUtilization(resources[i]) THEN CpuReading(resources[i]) ELSE 0]
    IN /\ DOMAIN avg = {t \in TypesPresent : Reporting(t) # {}}
       /\ \A t \in DOMAIN avg :
            /\ avg[t].num = SumOver(reading, Reporting(t))
            /\ avg[t].den = Cardinality(Reporting(t))

\* Analysed: a type with two reporting resources of different readings and
\* one that reports nothing.
C21_Witness ==
  /\ Analyzed
  /\ \E i, j, k \in Indices :
       /\ resources[i].resource_type = resources[j].resource_type
       /\ resources[i].resource_type = resources[k].resource_type
       /\ HasUtilization(resources[i]) /\ HasUtilization(resources[j])
       /\ CpuReading(resources[i]) > CpuReading(resources[j])
       /\ ~HasUtilization(resources[k])
       /\ analysis.average_utilization[resources[i].resource_type].den = 2

(***************************************************************************)
(* C23: every returned recommendation names at least one resource id, for  *)
(* every snapshot and every threshold, the threshold 0 included.           *)
(***************************************************************************)
C23_ResourcesNonEmpty ==
  Recommended =>
    \A k \in RecIndices : Len(recommendations[k].resources) > 0

\* Recommended without a threshold, from a snapshot where a generator had
\* nothing to select: no large storage, or idle resources all in production.
C23_Witness ==
  /\ Recommended
  /\ optimizer.savings_threshold = 0
  /\ Len(recommendations) > 0
  /\ LargeStorage = {}
  /\ Len(analysis.idle_resources) > 0
  /\ IdleNonProduction = {}

\* The generators in the order get_recommendations calls them.
GenerationOrder ==
  <<"terminate_unused", "stop_idle", "downsize", "schedule_stop", "move_storage">>

GenerationRank(rec) ==
  CHOOSE g \in 1..Len(GenerationOrder) : GenerationOrder[g] = rec.recommendation_type

(***************************************************************************)
(* C25: the final sort is stable.  Of two returned recommendations with    *)
(* equal estimated savings the one generated first comes first: the        *)
(* generators run in the order terminate-unused, stop-idle, downsize,      *)
(* schedule-stop, move-storage, and within one generator the groups come   *)
(* in the order they are first encountered, that is by their first         *)
(* resource.                                                               *)
(***************************************************************************)
C25_StableSort ==
  Recommended =>
    \A k, l \in RecIndices :
      (k < l /\ recommendations[k].estimated_savings
                 = recommendations[l].estimated_savings) =>
        \/ GenerationRank(recommendations[k]) < GenerationRank(recommendations[l])
        \/ /\ GenerationRank(recommendations[k]) = GenerationRank(recommendations[l])
           /\ recommendations[k].resources[1] < recommendations[l].resources[1]

\* Recommended: two recommendations of different generators tie, and the
\* one generated first names the later resource.
C25_Witness ==
  /\ Recommended
  /\ \E k, l \in RecIndices :
       /\ k < l
       /\ recommendations[k].estimated_savings = recommendations[l].estimated_savings
       /\ recommendations[k].recommendation_type # recommendations[l].recommendation_type
       /\ recommendations[k].resources[1] > recommendations[l].resources[1]

(***************************************************************************)
(* C26: nothing is deduplicated across recommendation types.  When a       *)
(* STOP_IDLE and a SCHEDULE_STOP recommendation are both returned, every   *)
(* resource id of the first is also named by the second, and each counts   *)
(* the savings of all the resources it names: 70% and 30% of their cost.   *)
(***************************************************************************)
C26_NoDeduplication ==
  Recommended =>
    \A s \in RecsOfType("stop_idle") : \A d \in RecsOfType("schedule_stop") :
      /\ IdSet(recommendations[s]) \subseteq IdSet(recommendations[d])
      /\ recommendations[s].estimated_savings * 10
           = 7 * CostOfIds(IdSet(recommendations[s]))
      /\ recommendations[d].estimated_savings * 10
           = 3 * CostOfIds(IdSet(recommendations[d]))

\* Recommended: both are returned and the schedule names more than the
\* idle resources.
C26_Witness ==
  /\ Recommended
  /\ \E s \in RecsOfType("stop_idle") : \E d \in RecsOfType("schedule_stop") :
       /\ IdSet(recommendations[s]) # {}
       /\ IdSet(recommendations[s]) # IdSet(recommendations[d])

(***************************************************************************)
(* C30: the unused list holds each input resource at most once and in      *)
(* input order, also a resource that matches both the lifecycle rule and   *)
(* the zero-utilization rule; so a TERMINATE_UNUSED recommendation names   *)
(* no resource twice and counts the cost of each resource it names once.   *)
(***************************************************************************)
C30_UnusedOnceInOrder ==
  /\ Analyzed =>
       LET unused == analysis.unused_resources
       IN /\ \A j \in 1..Len(unused) :
               /\ unused[j].resource_id \in Indices
               /\ unused[j] = resources[unused[j].resource_id]
          /\ \A j, k \in 1..Len(unused) :
               j < k => unused[j].resource_id < unused[k].resource_id
  /\ Recommended =>
       \A k \in RecsOfType("terminate_unused") :
         /\ Cardinality(IdSet(recommendations[k])) = Len(recommendations[k].resources)
         /\ recommendations[k].estimated_savings = CostOfIds(IdSet(recommendations[k]))

\* Recommended: a resource that is stopped and reads zero is named by a
\* TERMINATE_UNUSED recommendation together with another resource.
C30_Witness ==
  /\ Recommended
  /\ \E i \in Indices : \E k \in RecsOfType("terminate_unused") :
       /\ StoppedValue(resources[i], "state")
       /\ ReadsZero(resources[i])
       /\ i \in IdSet(recommendations[k])
       /\ Cardinality(IdSet(recommendations[k])) > 1

Applied == pc = "applied"

\* The entries of the given list that are recommendations.
WellFormed == SelectSeq(recommendations, LAMBDA rec : ~IsNone(rec))

(***************************************************************************)
(* C24: in a dry run apply_recommendation calls no stop or terminate       *)
(* operation of the provider, whatever the recommendation type; its result *)
(* reports the number of resource ids of the recommendation as             *)
(* resources_processed and carries dry_run.                                *)
(***************************************************************************)
C24_DryRunCallsNothing ==
  (Applied /\ request.dry_run) =>
    /\ cloud.calls = <<>>
    /\ Len(apply_results.results) = Len(WellFormed)
    /\ \A k \in 1..Len(WellFormed) :
         /\ "dry_run" \in DOMAIN apply_results.results[k]
         /\ apply_results.results[k].dry_run
         /\ apply_results.results[k].resources_processed = Len(WellFormed[k].resources)

\* A dry run on AWS was given a recommendation to terminate and one to stop
\* an instance that the cloud would terminate and stop.
C24_Witness ==
  /\ Applied
  /\ request.dry_run
  /\ get_provider(request.provider_name) = "AWSProvider"
  /\ \E k, l \in 1..Len(WellFormed) :
       /\ WellFormed[k].recommendation_type = "terminate_unused"
       /\ WellFormed[l].recommendation_type = "stop_idle"
       /\ WellFormed[k].resources[1] = Id_i_1
       /\ cloud.responses[Id_i_1]

(***************************************************************************)
(* C29: after apply_optimizations recommendations_succeeded plus           *)
(* recommendations_failed is the number of recommendations given, and      *)
(* recommendations_applied counts those whose application did not raise.   *)
(* A recommendation is counted as succeeded only if at least one of its    *)
(* resources succeeded; so in a dry run recommendations_succeeded is 0 and *)
(* every recommendation is counted as failed.                              *)
(***************************************************************************)
C29_CountersOfApply ==
  Applied =>
    /\ apply_results.recommendations_succeeded + apply_results.recommendations_failed
         = Len(recommendations)
    /\ apply_results.recommendations_applied = Len(WellFormed)
    /\ apply_results.recommendations_succeeded
         = Cardinality({k \in 1..Len(apply_results.results) :
                          apply_results.results[k].resources_succeeded > 0})
    /\ request.dry_run =>
         /\ apply_results.recommendations_succeeded = 0
         /\ apply_results.recommendations_failed = Len(recommendations)

\* A dry run was given an entry that raises and a recommendation, and counts
\* both as failed.
C29_Witness ==
  /\ Applied
  /\ request.dry_run
  /\ Len(recommendations) = 2
  /\ Len(WellFormed) = 1
  /\ apply_results.recommendations_failed = 2
  /\ apply_results.recommendations_applied = 1

(***************************************************************************)
(* C27: the scheduler addresses schedules by position.  A remove_schedule  *)
(* with an index i in 0..len-1 returns True and removes exactly the entry  *)
(* at i: the entries before it stay and every later entry moves down by    *)
(* one, so that the index i afterwards addresses the entry that followed,  *)
(* or none.  With an index outside 0..len-1 it returns False and the list  *)
(* is unchanged.                                                           *)
(***************************************************************************)
C27_RemoveByPosition ==
  [][ call'.op = "remove_schedule" =>
        LET i == call'.arg
            old == scheduler.schedules
            new == scheduler'.schedules
        IN IF 0 <= i /\ i <= Len(old) - 1
           THEN /\ call'.ret = TRUE
                /\ Len(new) = Len(old) - 1
                /\ \A j \in 1..Len(new) :
                     new[j] = IF j <= i THEN old[j] ELSE old[j + 1]
           ELSE /\ call'.ret = FALSE
                /\ new = old ]_vars

\* A schedule that was not the last has been removed: its index addresses
\* the schedule created after it.
C27_Witness ==
  /\ call.op = "remove_schedule"
  /\ call.ret = TRUE
  /\ call.arg + 1 < Len(scheduler.schedules)
  /\ scheduler.schedules[call.arg + 1].created_at
       < scheduler.schedules[call.arg + 2].created_at

(***************************************************************************)
(* C28: a failure while the provider fetches a part of the snapshot        *)
(* surfaces as a fetch failure of the whole pass, analyze_provider         *)
(* returning success false; the part that was collected does not reach the *)
(* analyzers as if it were the whole snapshot.                             *)
(* Fails: the fetch of a resource family catches its exception and returns *)
(* what it has collected, and the pass goes on to the analyses.            *)
(***************************************************************************)
C28_FetchFailureSurfaces ==
  (pc # "start" /\ \E f \in 1..Len(account.families) : account.families[f].failed)
    => pc = "fetch_failed"

====
